---- MODULE Spec2Model ----
(***************************************************************************)
(* Waste-sorting backend: the HTTP entry point Invoke, the request handler *)
(* HandleRequest, the service pipeline ProcessWasteImage with its two      *)
(* validators and two gateways, and the Localizer.                         *)
(*                                                                         *)
(* Representation.  Strings the code only compares for equality are TLA+   *)
(* strings.  Strings the code inspects character by character (the postal  *)
(* code) are sequences of one-character strings.  Texts the code searches  *)
(* (the request Content-Type, the candidate texts of the analysis backend) *)
(* are sequences of lexical tokens.  Catalog strings are written in ASCII  *)
(* with every non-ASCII code point as a \uXXXX escape.                     *)
(***************************************************************************)
EXTENDS Integers, Sequences, FiniteSets, TLC

VARIABLES
  pc,          \* position of the request in Invoke
  cfg,         \* config.Config loaded by NewContainer for this request
  containerErr,\* error returned by container.NewContainer ("": none)
  req,         \* the inbound HTTP request
  request,     \* models.WasteSortingRequest built by HandleRequest
  calls,       \* validators and gateways invoked for this request, in order
  verifyAns,   \* what the verification backend answered
  readAns,     \* whether io.ReadAll of the uploaded file succeeded
  analysisAns, \* what the analysis backend answered
  failedStep,  \* the check of the pipeline that ended the request
  resp,        \* models.WasteSortingResponse handed to WriteJSONResponse
  status,      \* HTTP status written by Invoke (0: none written)
  body,        \* plain-text body written by http.Error
  headers,     \* response headers set on the http.ResponseWriter
  formParsed,  \* outcome of r.ParseMultipartForm ("none": not called)
  cancelledAt, \* where Invoke was when the request context got cancelled
  ctxDoneFor,  \* gateway calls whose context was done when they returned
  statusWrites,\* number of status lines written to the ResponseWriter
  resources,   \* resources opened for the request and not yet closed
  opened,      \* resources opened for the request so far
  fn,          \* pure-function harness: the function under test
  input,       \* pure-function harness: its argument
  output,      \* pure-function harness: its result
  otelProvider,\* the process-global TracerProvider of package otel
  providers,   \* state of the TracerProvider each invocation created
  inv          \* concurrent invocations: position, tracer, accesses

vars == <<pc, cfg, containerErr, req, request, calls, verifyAns, readAns,
          analysisAns, failedStep, resp, status, body, headers, formParsed,
          cancelledAt, ctxDoneFor, statusWrites, resources, opened, fn,
          input, output, otelProvider, providers, inv>>

pipelineVars == <<pc, cfg, containerErr, req, request, calls, verifyAns,
                  readAns, analysisAns, failedStep, resp, status, body,
                  headers, formParsed, cancelledAt, ctxDoneFor, statusWrites,
                  resources, opened>>

harnessVars == <<fn, input, output>>

tracerVars == <<otelProvider, providers, inv>>

(***************************************************************************)
(* Bounds of the model.                                                    *)
(***************************************************************************)
MaxCandidates == 2
MaxPostalLen == 6
NumRequests == 2

None == "none"

(***************************************************************************)
(* Localizer (internal/infrastructure/localization/localizer.go)           *)
(***************************************************************************)
supportedLanguages ==
  {"de", "en", "tr", "ru", "pl",
   "ar", "ku", "it", "bs", "hr",
   "sr", "ro", "el", "es", "fr",
   "hi", "ur", "vi", "zh", "fa",
   "ps", "ta", "sq", "da", "uk"}

errorMessages ==
  "en" :> [InvalidPostalCode |-> "Invalid German postal code",
       InvalidImage |-> "Invalid image file",
       RecaptchaFailed |-> "reCAPTCHA verification failed",
       ProcessingError |-> "Error processing your request",
       MissingFields |-> "Missing required fields"]
  @@ "de" :> [InvalidPostalCode |-> "Ung\\u00fcltige deutsche Postleitzahl",
       InvalidImage |-> "Ung\\u00fcltige Bilddatei",
       RecaptchaFailed |-> "reCAPTCHA-Verifizierung fehlgeschlagen",
       ProcessingError |-> "Fehler bei der Verarbeitung Ihrer Anfrage",
       MissingFields |-> "Pflichtfelder fehlen"]
  @@ "ru" :> [InvalidPostalCode |-> "\\u041d\\u0435\\u0432\\u0435\\u0440\\u043d\\u044b\\u0439 \\u043d\\u0435\\u043c\\u0435\\u0446\\u043a\\u0438\\u0439 \\u043f\\u043e\\u0447\\u0442\\u043e\\u0432\\u044b\\u0439 \\u0438\\u043d\\u0434\\u0435\\u043a\\u0441",
       InvalidImage |-> "\\u041d\\u0435\\u0432\\u0435\\u0440\\u043d\\u044b\\u0439 \\u0444\\u0430\\u0439\\u043b \\u0438\\u0437\\u043e\\u0431\\u0440\\u0430\\u0436\\u0435\\u043d\\u0438\\u044f",
       RecaptchaFailed |-> "\\u041f\\u0440\\u043e\\u0432\\u0435\\u0440\\u043a\\u0430 reCAPTCHA \\u043d\\u0435 \\u0443\\u0434\\u0430\\u043b\\u0430\\u0441\\u044c",
       ProcessingError |-> "\\u041e\\u0448\\u0438\\u0431\\u043a\\u0430 \\u043e\\u0431\\u0440\\u0430\\u0431\\u043e\\u0442\\u043a\\u0438 \\u0432\\u0430\\u0448\\u0435\\u0433\\u043e \\u0437\\u0430\\u043f\\u0440\\u043e\\u0441\\u0430",
       MissingFields |-> "\\u041e\\u0442\\u0441\\u0443\\u0442\\u0441\\u0442\\u0432\\u0443\\u044e\\u0442 \\u043e\\u0431\\u044f\\u0437\\u0430\\u0442\\u0435\\u043b\\u044c\\u043d\\u044b\\u0435 \\u043f\\u043e\\u043b\\u044f"]
  @@ "tr" :> [InvalidPostalCode |-> "Ge\\u00e7ersiz Alman posta kodu",
       InvalidImage |-> "Ge\\u00e7ersiz resim dosyas\\u0131",
       RecaptchaFailed |-> "reCAPTCHA do\\u011frulamas\\u0131 ba\\u015far\\u0131s\\u0131z",
       ProcessingError |-> "\\u0130ste\\u011finizi i\\u015fleme hatas\\u0131",
       MissingFields |-> "Gerekli alanlar eksik"]
  @@ "pl" :> [InvalidPostalCode |-> "Nieprawid\\u0142owy niemiecki kod pocztowy",
       InvalidImage |-> "Nieprawid\\u0142owy plik obrazu",
       RecaptchaFailed |-> "Weryfikacja reCAPTCHA nie powiod\\u0142a si\\u0119",
       ProcessingError |-> "B\\u0142\\u0105d przetwarzania Twojego \\u017c\\u0105dania",
       MissingFields |-> "Brakuje wymaganych p\\u00f3l"]
  @@ "ar" :> [InvalidPostalCode |-> "\\u0631\\u0645\\u0632 \\u0628\\u0631\\u064a\\u062f\\u064a \\u0623\\u0644\\u0645\\u0627\\u0646\\u064a \\u063a\\u064a\\u0631 \\u0635\\u0627\\u0644\\u062d",
       InvalidImage |-> "\\u0645\\u0644\\u0641 \\u0635\\u0648\\u0631\\u0629 \\u063a\\u064a\\u0631 \\u0635\\u0627\\u0644\\u062d",
       RecaptchaFailed |-> "\\u0641\\u0634\\u0644 \\u0627\\u0644\\u062a\\u062d\\u0642\\u0642 \\u0645\\u0646 reCAPTCHA",
       ProcessingError |-> "\\u062e\\u0637\\u0623 \\u0641\\u064a \\u0645\\u0639\\u0627\\u0644\\u062c\\u0629 \\u0637\\u0644\\u0628\\u0643",
       MissingFields |-> "\\u062d\\u0642\\u0648\\u0644 \\u0645\\u0637\\u0644\\u0648\\u0628\\u0629 \\u0645\\u0641\\u0642\\u0648\\u062f\\u0629"]
  @@ "ku" :> [InvalidPostalCode |-> "Koda post\\u00ea ya Alman\\u00ee ya nederust",
       InvalidImage |-> "Pel\\u00ea w\\u00eaney\\u00ea nederust",
       RecaptchaFailed |-> "Pi\\u015ftrastkirina reCAPTCHA t\\u00eak \\u00e7\\u00fb",
       ProcessingError |-> "Di p\\u00eavajoya daxwaza te de \\u00e7ewt\\u00ee",
       MissingFields |-> "Zeviy\\u00ean p\\u00eaw\\u00eest k\\u00eam in"]
  @@ "it" :> [InvalidPostalCode |-> "Codice postale tedesco non valido",
       InvalidImage |-> "File immagine non valido",
       RecaptchaFailed |-> "Verifica reCAPTCHA fallita",
       ProcessingError |-> "Errore nell'elaborazione della richiesta",
       MissingFields |-> "Campi obbligatori mancanti"]
  @@ "bs" :> [InvalidPostalCode |-> "Neispravan njema\\u010dki po\\u0161tanski broj",
       InvalidImage |-> "Neispravna datoteka slike",
       RecaptchaFailed |-> "reCAPTCHA provjera neuspje\\u0161na",
       ProcessingError |-> "Gre\\u0161ka pri obradi zahtjeva",
       MissingFields |-> "Nedostaju obavezna polja"]
  @@ "hr" :> [InvalidPostalCode |-> "Neispravan njema\\u010dki po\\u0161tanski broj",
       InvalidImage |-> "Neispravna datoteka slike",
       RecaptchaFailed |-> "reCAPTCHA provjera neuspje\\u0161na",
       ProcessingError |-> "Gre\\u0161ka pri obradi zahtjeva",
       MissingFields |-> "Nedostaju obavezna polja"]
  @@ "sr" :> [InvalidPostalCode |-> "\\u041d\\u0435\\u0438\\u0441\\u043f\\u0440\\u0430\\u0432\\u0430\\u043d \\u043d\\u0435\\u043c\\u0430\\u0447\\u043a\\u0438 \\u043f\\u043e\\u0448\\u0442\\u0430\\u043d\\u0441\\u043a\\u0438 \\u0431\\u0440\\u043e\\u0458",
       InvalidImage |-> "\\u041d\\u0435\\u0438\\u0441\\u043f\\u0440\\u0430\\u0432\\u043d\\u0430 \\u0434\\u0430\\u0442\\u043e\\u0442\\u0435\\u043a\\u0430 \\u0441\\u043b\\u0438\\u043a\\u0435",
       RecaptchaFailed |-> "reCAPTCHA \\u043f\\u0440\\u043e\\u0432\\u0435\\u0440\\u0430 \\u043d\\u0435\\u0443\\u0441\\u043f\\u0435\\u0448\\u043d\\u0430",
       ProcessingError |-> "\\u0413\\u0440\\u0435\\u0448\\u043a\\u0430 \\u043f\\u0440\\u0438 \\u043e\\u0431\\u0440\\u0430\\u0434\\u0438 \\u0437\\u0430\\u0445\\u0442\\u0435\\u0432\\u0430",
       MissingFields |-> "\\u041d\\u0435\\u0434\\u043e\\u0441\\u0442\\u0430\\u0458\\u0443 \\u043e\\u0431\\u0430\\u0432\\u0435\\u0437\\u043d\\u0430 \\u043f\\u043e\\u0459\\u0430"]
  @@ "ro" :> [InvalidPostalCode |-> "Cod po\\u0219tal german invalid",
       InvalidImage |-> "Fi\\u0219ier imagine invalid",
       RecaptchaFailed |-> "Verificarea reCAPTCHA a e\\u0219uat",
       ProcessingError |-> "Eroare la procesarea cererii",
       MissingFields |-> "C\\u00e2mpuri obligatorii lips\\u0103"]
  @@ "el" :> [InvalidPostalCode |-> "\\u039c\\u03b7 \\u03ad\\u03b3\\u03ba\\u03c5\\u03c1\\u03bf\\u03c2 \\u03b3\\u03b5\\u03c1\\u03bc\\u03b1\\u03bd\\u03b9\\u03ba\\u03cc\\u03c2 \\u03c4\\u03b1\\u03c7\\u03c5\\u03b4\\u03c1\\u03bf\\u03bc\\u03b9\\u03ba\\u03cc\\u03c2 \\u03ba\\u03ce\\u03b4\\u03b9\\u03ba\\u03b1\\u03c2",
       InvalidImage |-> "\\u039c\\u03b7 \\u03ad\\u03b3\\u03ba\\u03c5\\u03c1\\u03bf \\u03b1\\u03c1\\u03c7\\u03b5\\u03af\\u03bf \\u03b5\\u03b9\\u03ba\\u03cc\\u03bd\\u03b1\\u03c2",
       RecaptchaFailed |-> "\\u0397 \\u03b5\\u03c0\\u03b1\\u03bb\\u03ae\\u03b8\\u03b5\\u03c5\\u03c3\\u03b7 reCAPTCHA \\u03b1\\u03c0\\u03ad\\u03c4\\u03c5\\u03c7\\u03b5",
       ProcessingError |-> "\\u03a3\\u03c6\\u03ac\\u03bb\\u03bc\\u03b1 \\u03b5\\u03c0\\u03b5\\u03be\\u03b5\\u03c1\\u03b3\\u03b1\\u03c3\\u03af\\u03b1\\u03c2 \\u03c4\\u03bf\\u03c5 \\u03b1\\u03b9\\u03c4\\u03ae\\u03bc\\u03b1\\u03c4\\u03cc\\u03c2 \\u03c3\\u03b1\\u03c2",
       MissingFields |-> "\\u039b\\u03b5\\u03af\\u03c0\\u03bf\\u03c5\\u03bd \\u03c5\\u03c0\\u03bf\\u03c7\\u03c1\\u03b5\\u03c9\\u03c4\\u03b9\\u03ba\\u03ac \\u03c0\\u03b5\\u03b4\\u03af\\u03b1"]
  @@ "es" :> [InvalidPostalCode |-> "C\\u00f3digo postal alem\\u00e1n inv\\u00e1lido",
       InvalidImage |-> "Archivo de imagen inv\\u00e1lido",
       RecaptchaFailed |-> "Verificaci\\u00f3n reCAPTCHA fallida",
       ProcessingError |-> "Error procesando su solicitud",
       MissingFields |-> "Faltan campos requeridos"]
  @@ "fr" :> [InvalidPostalCode |-> "Code postal allemand invalide",
       InvalidImage |-> "Fichier image invalide",
       RecaptchaFailed |-> "\\u00c9chec de la v\\u00e9rification reCAPTCHA",
       ProcessingError |-> "Erreur lors du traitement de votre demande",
       MissingFields |-> "Champs requis manquants"]
  @@ "hi" :> [InvalidPostalCode |-> "\\u0905\\u092e\\u093e\\u0928\\u094d\\u092f \\u091c\\u0930\\u094d\\u092e\\u0928 \\u092a\\u094b\\u0938\\u094d\\u091f\\u0932 \\u0915\\u094b\\u0921",
       InvalidImage |-> "\\u0905\\u092e\\u093e\\u0928\\u094d\\u092f \\u091b\\u0935\\u093f \\u092b\\u093c\\u093e\\u0907\\u0932",
       RecaptchaFailed |-> "reCAPTCHA \\u0938\\u0924\\u094d\\u092f\\u093e\\u092a\\u0928 \\u0935\\u093f\\u092b\\u0932",
       ProcessingError |-> "\\u0906\\u092a\\u0915\\u0947 \\u0905\\u0928\\u0941\\u0930\\u094b\\u0927 \\u0915\\u094b \\u0938\\u0902\\u0938\\u093e\\u0927\\u093f\\u0924 \\u0915\\u0930\\u0928\\u0947 \\u092e\\u0947\\u0902 \\u0924\\u094d\\u0930\\u0941\\u091f\\u093f",
       MissingFields |-> "\\u0906\\u0935\\u0936\\u094d\\u092f\\u0915 \\u092b\\u093c\\u0940\\u0932\\u094d\\u0921 \\u0917\\u0941\\u092e \\u0939\\u0948\\u0902"]
  @@ "ur" :> [InvalidPostalCode |-> "\\u063a\\u0644\\u0637 \\u062c\\u0631\\u0645\\u0646 \\u067e\\u0648\\u0633\\u0679\\u0644 \\u06a9\\u0648\\u0688",
       InvalidImage |-> "\\u063a\\u0644\\u0637 \\u062a\\u0635\\u0648\\u06cc\\u0631\\u06cc \\u0641\\u0627\\u0626\\u0644",
       RecaptchaFailed |-> "reCAPTCHA \\u062a\\u0635\\u062f\\u06cc\\u0642 \\u0646\\u0627\\u06a9\\u0627\\u0645",
       ProcessingError |-> "\\u0622\\u067e \\u06a9\\u06cc \\u062f\\u0631\\u062e\\u0648\\u0627\\u0633\\u062a \\u067e\\u0631 \\u0639\\u0645\\u0644 \\u06a9\\u0631\\u0646\\u06d2 \\u0645\\u06cc\\u06ba \\u062e\\u0631\\u0627\\u0628\\u06cc",
       MissingFields |-> "\\u0636\\u0631\\u0648\\u0631\\u06cc \\u0641\\u06cc\\u0644\\u0688\\u0632 \\u063a\\u0627\\u0626\\u0628 \\u06c1\\u06cc\\u06ba"]
  @@ "vi" :> [InvalidPostalCode |-> "M\\u00e3 b\\u01b0u \\u0111i\\u1ec7n \\u0110\\u1ee9c kh\\u00f4ng h\\u1ee3p l\\u1ec7",
       InvalidImage |-> "T\\u1ec7p h\\u00ecnh \\u1ea3nh kh\\u00f4ng h\\u1ee3p l\\u1ec7",
       RecaptchaFailed |-> "X\\u00e1c minh reCAPTCHA th\\u1ea5t b\\u1ea1i",
       ProcessingError |-> "L\\u1ed7i x\\u1eed l\\u00fd y\\u00eau c\\u1ea7u c\\u1ee7a b\\u1ea1n",
       MissingFields |-> "Thi\\u1ebfu c\\u00e1c tr\\u01b0\\u1eddng b\\u1eaft bu\\u1ed9c"]
  @@ "zh" :> [InvalidPostalCode |-> "\\u65e0\\u6548\\u7684\\u5fb7\\u56fd\\u90ae\\u653f\\u7f16\\u7801",
       InvalidImage |-> "\\u65e0\\u6548\\u7684\\u56fe\\u50cf\\u6587\\u4ef6",
       RecaptchaFailed |-> "reCAPTCHA\\u9a8c\\u8bc1\\u5931\\u8d25",
       ProcessingError |-> "\\u5904\\u7406\\u60a8\\u7684\\u8bf7\\u6c42\\u65f6\\u51fa\\u9519",
       MissingFields |-> "\\u7f3a\\u5c11\\u5fc5\\u586b\\u5b57\\u6bb5"]
  @@ "fa" :> [InvalidPostalCode |-> "\\u06a9\\u062f \\u067e\\u0633\\u062a\\u06cc \\u0622\\u0644\\u0645\\u0627\\u0646 \\u0646\\u0627\\u0645\\u0639\\u062a\\u0628\\u0631",
       InvalidImage |-> "\\u0641\\u0627\\u06cc\\u0644 \\u062a\\u0635\\u0648\\u06cc\\u0631 \\u0646\\u0627\\u0645\\u0639\\u062a\\u0628\\u0631",
       RecaptchaFailed |-> "\\u062a\\u0623\\u06cc\\u06cc\\u062f reCAPTCHA \\u0646\\u0627\\u0645\\u0648\\u0641\\u0642",
       ProcessingError |-> "\\u062e\\u0637\\u0627 \\u062f\\u0631 \\u067e\\u0631\\u062f\\u0627\\u0632\\u0634 \\u062f\\u0631\\u062e\\u0648\\u0627\\u0633\\u062a \\u0634\\u0645\\u0627",
       MissingFields |-> "\\u0641\\u06cc\\u0644\\u062f\\u0647\\u0627\\u06cc \\u0636\\u0631\\u0648\\u0631\\u06cc \\u0645\\u0648\\u062c\\u0648\\u062f \\u0646\\u06cc\\u0633\\u062a"]
  @@ "ps" :> [InvalidPostalCode |-> "\\u062f \\u0622\\u0644\\u0645\\u0627\\u0646 \\u062f \\u067e\\u0648\\u0633\\u062a\\u06d0 \\u063a\\u0644\\u0637 \\u06a9\\u0648\\u0689",
       InvalidImage |-> "\\u062f \\u0627\\u0646\\u0681\\u0648\\u0631 \\u063a\\u0644\\u0637 \\u062f\\u0648\\u062a\\u0646\\u0647",
       RecaptchaFailed |-> "\\u062f reCAPTCHA \\u062a\\u0635\\u062f\\u06cc\\u0642 \\u0646\\u0627\\u06a9\\u0627\\u0645",
       ProcessingError |-> "\\u0633\\u062a\\u0627\\u0633\\u0648 \\u062f \\u063a\\u0648\\u069a\\u062a\\u0646\\u06d0 \\u067e\\u0631\\u0648\\u0633\\u0633 \\u06a9\\u0648\\u0644\\u0648 \\u06a9\\u06d0 \\u062a\\u06d0\\u0631\\u0648\\u062a\\u0646\\u0647",
       MissingFields |-> "\\u0627\\u0693\\u06cc\\u0646 \\u0633\\u0627\\u062d\\u06d0 \\u0648\\u0631\\u06a9 \\u062f\\u064a"]
  @@ "ta" :> [InvalidPostalCode |-> "\\u0ba4\\u0bb5\\u0bb1\\u0bbe\\u0ba9 \\u0b9c\\u0bc6\\u0bb0\\u0bcd\\u0bae\\u0ba9\\u0bcd \\u0b85\\u0b9e\\u0bcd\\u0b9a\\u0bb2\\u0bcd \\u0b95\\u0bc1\\u0bb1\\u0bbf\\u0baf\\u0bc0\\u0b9f\\u0bc1",
       InvalidImage |-> "\\u0ba4\\u0bb5\\u0bb1\\u0bbe\\u0ba9 \\u0baa\\u0b9f\\u0b95\\u0bcd \\u0b95\\u0bcb\\u0baa\\u0bcd\\u0baa\\u0bc1",
       RecaptchaFailed |-> "reCAPTCHA \\u0b9a\\u0bb0\\u0bbf\\u0baa\\u0bbe\\u0bb0\\u0bcd\\u0baa\\u0bcd\\u0baa\\u0bc1 \\u0ba4\\u0bcb\\u0bb2\\u0bcd\\u0bb5\\u0bbf",
       ProcessingError |-> "\\u0b89\\u0b99\\u0bcd\\u0b95\\u0bb3\\u0bcd \\u0b95\\u0bcb\\u0bb0\\u0bbf\\u0b95\\u0bcd\\u0b95\\u0bc8\\u0baf\\u0bc8 \\u0b9a\\u0bc6\\u0baf\\u0bb2\\u0bbe\\u0b95\\u0bcd\\u0b95\\u0bc1\\u0bb5\\u0ba4\\u0bbf\\u0bb2\\u0bcd \\u0baa\\u0bbf\\u0bb4\\u0bc8",
       MissingFields |-> "\\u0ba4\\u0bc7\\u0bb5\\u0bc8\\u0baf\\u0bbe\\u0ba9 \\u0baa\\u0bc1\\u0bb2\\u0b99\\u0bcd\\u0b95\\u0bb3\\u0bcd \\u0b95\\u0bbe\\u0ba3\\u0bb5\\u0bbf\\u0bb2\\u0bcd\\u0bb2\\u0bc8"]
  @@ "sq" :> [InvalidPostalCode |-> "Kod postar gjerman i pavlefsh\\u00ebm",
       InvalidImage |-> "Skedar imazhi i pavlefsh\\u00ebm",
       RecaptchaFailed |-> "Verifikimi reCAPTCHA d\\u00ebshtoi",
       ProcessingError |-> "Gabim n\\u00eb p\\u00ebrpunimin e k\\u00ebrkes\\u00ebs suaj",
       MissingFields |-> "Mungojn\\u00eb fushat e detyrueshme"]
  @@ "da" :> [InvalidPostalCode |-> "Ugyldig tysk postnummer",
       InvalidImage |-> "Ugyldig billedfil",
       RecaptchaFailed |-> "reCAPTCHA-verifikation mislykkedes",
       ProcessingError |-> "Fejl ved behandling af din anmodning",
       MissingFields |-> "Manglende p\\u00e5kr\\u00e6vede felter"]
  @@ "uk" :> [InvalidPostalCode |-> "\\u041d\\u0435\\u0434\\u0456\\u0439\\u0441\\u043d\\u0438\\u0439 \\u043d\\u0456\\u043c\\u0435\\u0446\\u044c\\u043a\\u0438\\u0439 \\u043f\\u043e\\u0448\\u0442\\u043e\\u0432\\u0438\\u0439 \\u0456\\u043d\\u0434\\u0435\\u043a\\u0441",
       InvalidImage |-> "\\u041d\\u0435\\u0434\\u0456\\u0439\\u0441\\u043d\\u0438\\u0439 \\u0444\\u0430\\u0439\\u043b \\u0437\\u043e\\u0431\\u0440\\u0430\\u0436\\u0435\\u043d\\u043d\\u044f",
       RecaptchaFailed |-> "\\u041f\\u0435\\u0440\\u0435\\u0432\\u0456\\u0440\\u043a\\u0430 reCAPTCHA \\u043d\\u0435 \\u0432\\u0434\\u0430\\u043b\\u0430\\u0441\\u044f",
       ProcessingError |-> "\\u041f\\u043e\\u043c\\u0438\\u043b\\u043a\\u0430 \\u043e\\u0431\\u0440\\u043e\\u0431\\u043a\\u0438 \\u0432\\u0430\\u0448\\u043e\\u0433\\u043e \\u0437\\u0430\\u043f\\u0438\\u0442\\u0443",
       MissingFields |-> "\\u0412\\u0456\\u0434\\u0441\\u0443\\u0442\\u043d\\u0456 \\u043e\\u0431\\u043e\\u0432'\\u044f\\u0437\\u043a\\u043e\\u0432\\u0456 \\u043f\\u043e\\u043b\\u044f"]

MessageTypes ==
  {"invalid_postal_code", "invalid_image", "recaptcha_failed",
   "processing_error", "missing_fields"}

GenericErrorMessage == "An error occurred"

\* the switch over messageType in GetErrorMessage
MessageField(messages, messageType) ==
  CASE messageType = "invalid_postal_code" -> messages.InvalidPostalCode
    [] messageType = "invalid_image" -> messages.InvalidImage
    [] messageType = "recaptcha_failed" -> messages.RecaptchaFailed
    [] messageType = "processing_error" -> messages.ProcessingError
    [] messageType = "missing_fields" -> messages.MissingFields

IsLanguageSupported(language) == language \in supportedLanguages

\* a GetErrorMessage without the English fallback
GetErrorMessage_NoFallback(language, messageType) ==
  IF language \in DOMAIN errorMessages /\ messageType \in MessageTypes
    THEN MessageField(errorMessages[language], messageType)
    ELSE GenericErrorMessage

GetErrorMessage(language, messageType) ==
  IF language \in DOMAIN errorMessages /\ messageType \in MessageTypes
    THEN MessageField(errorMessages[language], messageType)
    ELSE IF "en" \in DOMAIN errorMessages /\ messageType \in MessageTypes
      THEN MessageField(errorMessages["en"], messageType)
      ELSE GenericErrorMessage

(***************************************************************************)
(* Postal code validator (waste_sorting_service.go, isValidGermanPostalCode)*)
(***************************************************************************)
Digits == {"0", "1", "2", "3", "4", "5", "6", "7", "8", "9"}

DigitValue(c) ==
  CASE c = "0" -> 0 [] c = "1" -> 1 [] c = "2" -> 2 [] c = "3" -> 3
    [] c = "4" -> 4 [] c = "5" -> 5 [] c = "6" -> 6 [] c = "7" -> 7
    [] c = "8" -> 8 [] c = "9" -> 9

\* regexp.MatchString(`^[0-9]{5}$`, postalCode)
MatchFiveDigits(postalCode) ==
  /\ Len(postalCode) = 5
  /\ \A i \in 1..5 : postalCode[i] \in Digits

\* fmt.Sscanf(postalCode, "%d", &code): skip leading blanks, an optional
\* sign, then the longest run of decimal digits; an error if there is none
RECURSIVE ScanDigits(_, _, _)
ScanDigits(s, i, acc) ==
  IF i > Len(s) \/ s[i] \notin Digits
    THEN [value |-> acc, next |-> i]
    ELSE ScanDigits(s, i + 1, acc * 10 + DigitValue(s[i]))

RECURSIVE SkipBlanks(_, _)
SkipBlanks(s, i) ==
  IF i <= Len(s) /\ s[i] \in {" ", "\t"} THEN SkipBlanks(s, i + 1) ELSE i

Sscanf_d(s) ==
  LET start == SkipBlanks(s, 1)
      signed == start <= Len(s) /\ s[start] \in {"+", "-"}
      first == IF signed THEN start + 1 ELSE start
      scan == ScanDigits(s, first, 0)
  IN IF scan.next = first
       THEN [err |-> TRUE, code |-> 0]
       ELSE [err |-> FALSE,
             code |-> IF signed /\ s[start] = "-" THEN 0 - scan.value
                      ELSE scan.value]

\* a validator that only checks the shape, not the range
isValidGermanPostalCode_ShapeOnly(postalCode) ==
  MatchFiveDigits(postalCode)

isValidGermanPostalCode(postalCode) ==
  IF ~MatchFiveDigits(postalCode) THEN FALSE
  ELSE LET scanned == Sscanf_d(postalCode)
       IN IF scanned.err THEN FALSE
          ELSE scanned.code >= 1001 /\ scanned.code <= 99998

(***************************************************************************)
(* Image validator (waste_sorting_service.go, isValidImageFile)            *)
(***************************************************************************)
NoFile == [present |-> FALSE]

validTypes ==
  <<"image/jpeg", "image/jpg", "image/png", "image/gif", "image/webp">>

\* a validator that accepts any declared type of a present file
isValidImageFile_AnyType(fileHeader) ==
  fileHeader.present

isValidImageFile(fileHeader) ==
  IF ~fileHeader.present THEN FALSE
  ELSE \E i \in 1..Len(validTypes) : fileHeader.contentType = validTypes[i]

(***************************************************************************)
(* Values shared by the pipeline                                           *)
(***************************************************************************)
Nil == [nil |-> TRUE]

NoResponse == [written |-> FALSE]

NoRequest == [built |-> FALSE]

NoAnswer == [kind |-> "none"]

\* models.WasteSortingResponse
Response(success, html, error) ==
  [Success |-> success, HTML |-> html, Error |-> error]

Contains(s, t) == \E i \in 1..Len(s) : s[i] = t

(***************************************************************************)
(* Configuration (internal/infrastructure/config/config.go)                *)
(***************************************************************************)
getEnv(e, key, defaultValue) ==
  IF e[key] # "" THEN e[key] ELSE defaultValue

LoadConfig(e) ==
  [ProjectID |-> getEnv(e, "PROJECT_ID", "waste-tips"),
   RecaptchaSiteKey |-> getEnv(e, "RECAPTCHA_SITE_KEY", "")]

(***************************************************************************)
(* Verification gateway (recaptcha.Service.VerifyToken)                    *)
(***************************************************************************)
\* riskScore is held in tenths; the threshold 0.5 is 5 tenths
ScoreThreshold == 5

\* remote tells how far the call got: "none" (nothing created), "client"
\* (NewClient was called), "assessment" (CreateAssessment was called)
VerifyResult(isValid, err, panicked, remote) ==
  [isValid |-> isValid, err |-> err, panicked |-> panicked,
   remote |-> remote]

\* a verification that refuses the boundary score
VerifyToken_StrictThreshold(conf, backend) ==
  IF conf.ProjectID = "" \/ conf.RecaptchaSiteKey = ""
    THEN VerifyResult(FALSE, "missing reCAPTCHA configuration", FALSE,
                      "none")
  ELSE IF backend.kind = "client_error"
    THEN VerifyResult(FALSE, "error creating reCAPTCHA client", FALSE,
                      "client")
  ELSE IF backend.kind = "assessment_error"
    THEN VerifyResult(FALSE, "error creating reCAPTCHA assessment", FALSE,
                      "assessment")
  ELSE IF backend.TokenProperties = Nil
    THEN VerifyResult(FALSE, "", TRUE, "assessment")
  ELSE IF ~backend.TokenProperties.Valid
    THEN VerifyResult(FALSE, "", FALSE, "assessment")
  ELSE IF backend.RiskAnalysis = Nil
    THEN VerifyResult(FALSE, "", TRUE, "assessment")
  ELSE VerifyResult(backend.RiskAnalysis.Score > ScoreThreshold, "", FALSE,
                    "assessment")

VerifyToken(conf, backend) ==
  IF conf.ProjectID = "" \/ conf.RecaptchaSiteKey = ""
    THEN VerifyResult(FALSE, "missing reCAPTCHA configuration", FALSE,
                      "none")
  ELSE IF backend.kind = "client_error"
    THEN VerifyResult(FALSE, "error creating reCAPTCHA client", FALSE,
                      "client")
  ELSE IF backend.kind = "assessment_error"
    THEN VerifyResult(FALSE, "error creating reCAPTCHA assessment", FALSE,
                      "assessment")
  ELSE IF backend.TokenProperties = Nil
    THEN VerifyResult(FALSE, "", TRUE, "assessment")
  ELSE IF ~backend.TokenProperties.Valid
    THEN VerifyResult(FALSE, "", FALSE, "assessment")
  ELSE IF backend.RiskAnalysis = Nil
    THEN VerifyResult(FALSE, "", TRUE, "assessment")
  ELSE VerifyResult(backend.RiskAnalysis.Score >= ScoreThreshold, "", FALSE,
                    "assessment")

(***************************************************************************)
(* Analysis gateway (WasteSortingService.processImageWithGemini)           *)
(***************************************************************************)
Whitespace == {" ", "\n", "\t"}

OpenBodyTokens == {"<body>", "<body class=\"a\">"}

CloseBodyTokens == {"</body>"}

RECURSIVE ConcatParts(_)
ConcatParts(parts) ==
  IF parts = <<>> THEN <<>>
  ELSE (IF Head(parts).Text # <<>> THEN Head(parts).Text ELSE <<>>)
       \o ConcatParts(Tail(parts))

\* regexp `(?s)<body[^>]*>(.*?)</body>`, FindStringSubmatch: the leftmost
\* opening tag that has a closing tag after it, up to the nearest closing tag
FindBodySubmatch(text) ==
  LET opens == {i \in 1..Len(text) :
                  /\ text[i] \in OpenBodyTokens
                  /\ \E j \in (i + 1)..Len(text) : text[j] \in CloseBodyTokens}
  IN IF opens = {} THEN [matched |-> FALSE, group |-> <<>>]
     ELSE LET i == CHOOSE m \in opens : \A n \in opens : m <= n
              closes == {j \in (i + 1)..Len(text) : text[j] \in CloseBodyTokens}
              j == CHOOSE m \in closes : \A n \in closes : m <= n
          IN [matched |-> TRUE, group |-> SubSeq(text, i + 1, j - 1)]

RECURSIVE TrimLeft(_)
TrimLeft(text) ==
  IF text # <<>> /\ Head(text) \in Whitespace THEN TrimLeft(Tail(text))
  ELSE text

RECURSIVE TrimRight(_)
TrimRight(text) ==
  IF text # <<>> /\ text[Len(text)] \in Whitespace
    THEN TrimRight(SubSeq(text, 1, Len(text) - 1))
    ELSE text

TrimSpace(text) == TrimRight(TrimLeft(text))

\* a candidate loop that returns the raw text when it holds no body pair
CandidateText_RawFallback(candidate) ==
  IF candidate.Content = Nil THEN <<>>
  ELSE IF Len(candidate.Content.Parts) = 0 THEN <<>>
  ELSE LET textResponse == ConcatParts(candidate.Content.Parts)
       IN IF textResponse = <<>> THEN <<>>
          ELSE LET match == FindBodySubmatch(textResponse)
               IN TrimSpace(IF match.matched THEN match.group
                            ELSE textResponse)

\* body of the candidate loop: the text the candidate yields, <<>> when the
\* loop continues to the next candidate
CandidateText(candidate) ==
  IF candidate.Content = Nil THEN <<>>
  ELSE IF Len(candidate.Content.Parts) = 0 THEN <<>>
  ELSE LET textResponse == ConcatParts(candidate.Content.Parts)
       IN IF textResponse = <<>> THEN <<>>
          ELSE LET match == FindBodySubmatch(textResponse)
               IN TrimSpace(IF match.matched THEN match.group ELSE <<>>)

AnalysisResult(html, err) == [html |-> html, err |-> err]

\* takes the first candidate's concatenated text without checking it
ScanCandidates_FirstOnly(candidates) ==
  IF candidates[1].Content = Nil THEN AnalysisResult(<<>>, "")
  ELSE AnalysisResult(ConcatParts(candidates[1].Content.Parts), "")

\* a candidate loop that gives up at the first candidate without content
ScanCandidates_StopAtEmpty(candidates) ==
  IF candidates = <<>> \/ CandidateText(Head(candidates)) = <<>>
    THEN AnalysisResult(<<>>, "no valid text response from Gemini")
    ELSE AnalysisResult(CandidateText(Head(candidates)), "")

RECURSIVE ScanCandidates(_)
ScanCandidates(candidates) ==
  IF candidates = <<>>
    THEN AnalysisResult(<<>>, "no valid text response from Gemini")
  ELSE IF CandidateText(Head(candidates)) = <<>>
    THEN ScanCandidates(Tail(candidates))
    ELSE AnalysisResult(CandidateText(Head(candidates)), "")

\* processImageWithGemini after io.ReadAll succeeded and GenerateContent
\* returned
GeminiResult(backend) ==
  IF backend.kind = "error"
    THEN AnalysisResult(<<>>, "failed to generate content")
  ELSE IF Len(backend.Candidates) = 0
    THEN AnalysisResult(<<>>, "no response from Gemini")
    ELSE ScanCandidates(backend.Candidates)

(***************************************************************************)
(* Service pipeline (WasteSortingService.ProcessWasteImage)                *)
(***************************************************************************)
\* a step of the pipeline either returns a response or blocks in a gateway
\* every return statement of HandleRequest and ProcessWasteImage returns a
\* response and a nil error
Return(response, step, trace) ==
  [kind |-> "return", resp |-> response, err |-> "", step |-> step,
   calls |-> trace]

Blocked(gateway, trace) ==
  [kind |-> gateway, resp |-> NoResponse, err |-> "", step |-> None,
   calls |-> trace]

Failure(language, messageType) ==
  Response(FALSE, <<>>, GetErrorMessage(language, messageType))

\* a pipeline that does not validate the postal code
ProcessWasteImage_Validate_NoPostalCheck(r) ==
  IF ~isValidImageFile(r.ImageHeader)
    THEN Return(Failure(r.Language, "invalid_image"), "image_type",
                <<"isValidImageFile">>)
    ELSE Blocked("VerifyToken", <<"isValidImageFile", "VerifyToken">>)

\* ProcessWasteImage from its entry to the call of VerifyToken
ProcessWasteImage_Validate(r) ==
  IF ~isValidGermanPostalCode(r.PostalCode)
    THEN Return(Failure(r.Language, "invalid_postal_code"), "postal_code",
                <<"isValidGermanPostalCode">>)
  ELSE IF ~isValidImageFile(r.ImageHeader)
    THEN Return(Failure(r.Language, "invalid_image"), "image_type",
                <<"isValidGermanPostalCode", "isValidImageFile">>)
    ELSE Blocked("VerifyToken",
                 <<"isValidGermanPostalCode", "isValidImageFile",
                   "VerifyToken">>)

\* a pipeline that tells a verification error from a refusal
ProcessWasteImage_Verified_ErrorApart(r, verified, readOk) ==
  IF verified.err # ""
    THEN Return(Failure(r.Language, "processing_error"), "verify", <<>>)
  ELSE IF ~verified.isValid
    THEN Return(Failure(r.Language, "recaptcha_failed"), "verify", <<>>)
  ELSE IF ~readOk
    THEN Return(Failure(r.Language, "processing_error"), "analysis",
                <<"ReadAll">>)
    ELSE Blocked("GenerateContent", <<"ReadAll", "GenerateContent">>)

\* a pipeline that only looks at the error of VerifyToken
ProcessWasteImage_Verified_IgnoreValid(r, verified, readOk) ==
  IF verified.err # ""
    THEN Return(Failure(r.Language, "recaptcha_failed"), "verify", <<>>)
  ELSE IF ~readOk
    THEN Return(Failure(r.Language, "processing_error"), "analysis",
                <<"ReadAll">>)
    ELSE Blocked("GenerateContent", <<"ReadAll", "GenerateContent">>)

\* a pipeline that calls VerifyToken again when it returned an error
ProcessWasteImage_Verified_Retry(r, verified, readOk) ==
  IF verified.err # ""
    THEN Blocked("VerifyToken", <<"VerifyToken">>)
  ELSE IF ~verified.isValid
    THEN Return(Failure(r.Language, "recaptcha_failed"), "verify", <<>>)
  ELSE IF ~readOk
    THEN Return(Failure(r.Language, "processing_error"), "analysis",
                <<"ReadAll">>)
    ELSE Blocked("GenerateContent", <<"ReadAll", "GenerateContent">>)

\* a pipeline that reports a refused verification as a processing error
ProcessWasteImage_Verified_WrongKind(r, verified, readOk) ==
  IF verified.err # "" \/ ~verified.isValid
    THEN Return(Failure(r.Language, "processing_error"), "verify", <<>>)
  ELSE IF ~readOk
    THEN Return(Failure(r.Language, "processing_error"), "analysis",
                <<"ReadAll">>)
    ELSE Blocked("GenerateContent", <<"ReadAll", "GenerateContent">>)

\* ProcessWasteImage from the return of VerifyToken to the call of
\* GenerateContent; readOk is the outcome of io.ReadAll on the upload
ProcessWasteImage_Verified(r, verified, readOk) ==
  IF verified.err # "" \/ ~verified.isValid
    THEN Return(Failure(r.Language, "recaptcha_failed"), "verify", <<>>)
  ELSE IF ~readOk
    THEN Return(Failure(r.Language, "processing_error"), "analysis",
                <<"ReadAll">>)
    ELSE Blocked("GenerateContent", <<"ReadAll", "GenerateContent">>)

\* ProcessWasteImage from the return of GenerateContent to its end
ProcessWasteImage_Analysed(r, analysed) ==
  IF analysed.err # ""
    THEN Return(Failure(r.Language, "processing_error"), "analysis", <<>>)
    ELSE Return(Response(TRUE, analysed.html, ""), None, <<>>)

(***************************************************************************)
(* Handler (WasteSortingHandler.HandleRequest)                             *)
(***************************************************************************)
\* falls back to German instead of English
NormalizeLanguage_German(language) ==
  IF ~IsLanguageSupported(language) THEN "de" ELSE language

NormalizeLanguage(language) ==
  IF ~IsLanguageSupported(language) THEN "en" ELSE language

\* models.WasteSortingRequest
BuildRequest(r) ==
  [PostalCode |-> r.postal_code,
   RecaptchaCode |-> r.recaptcha_code,
   Language |-> NormalizeLanguage(r.language),
   ImageFile |-> r.image.data,
   ImageHeader |-> [present |-> TRUE, contentType |-> r.image.contentType]]

ParseFailure == Response(FALSE, <<>>, "Failed to parse form")

\* a handler that goes on with the form after ParseMultipartForm failed
HandleRequest_Begin_IgnoreParseError(r) ==
  IF r.postal_code = <<>> \/ r.recaptcha_code = ""
    THEN Return(Failure(NormalizeLanguage(r.language), "missing_fields"),
                "required_fields", <<>>)
  ELSE IF ~r.image.present
    THEN Return(Failure(NormalizeLanguage(r.language), "invalid_image"),
                "form_file", <<>>)
    ELSE ProcessWasteImage_Validate(BuildRequest(r))

\* strings.ToLower on the media types of the model
ToLower(mediatype) ==
  IF mediatype = "Multipart/Form-Data" THEN "multipart/form-data"
  ELSE mediatype

\* r.ParseMultipartForm(10 << 20) succeeds: the header is there, its media
\* type in lower case is multipart/form-data, it has a boundary parameter
\* and the body can be read
ParseMultipartForm(r) ==
  /\ r.contentType # <<>>
  /\ ToLower(Head(r.contentType)) = "multipart/form-data"
  /\ Contains(Tail(r.contentType), "; boundary=x")
  /\ r.bodyOk

\* HandleRequest from its entry to the call of VerifyToken
HandleRequest_Begin(r) ==
  IF ~ParseMultipartForm(r)
    THEN Return(ParseFailure, "parse_form", <<>>)
  ELSE IF r.postal_code = <<>> \/ r.recaptcha_code = ""
    THEN Return(Failure(NormalizeLanguage(r.language), "missing_fields"),
                "required_fields", <<>>)
  ELSE IF ~r.image.present
    THEN Return(Failure(NormalizeLanguage(r.language), "invalid_image"),
                "form_file", <<>>)
    ELSE ProcessWasteImage_Validate(BuildRequest(r))

\* HandleRequest as a whole: the response it returns for request r when the
\* verification backend answers vb, io.ReadAll ends as rd and the analysis
\* backend answers ab (NoResponse when VerifyToken panics)
HandleRequest(r, conf, vb, rd, ab) ==
  LET begun == HandleRequest_Begin(r)
  IN IF begun.kind = "return" THEN begun.resp
     ELSE LET verified == VerifyToken(conf, vb)
          IN IF verified.panicked THEN NoResponse
             ELSE LET mid == ProcessWasteImage_Verified(BuildRequest(r),
                                                        verified, rd = "ok")
                  IN IF mid.kind = "return" THEN mid.resp
                     ELSE ProcessWasteImage_Analysed(BuildRequest(r),
                                                     GeminiResult(ab)).resp

(***************************************************************************)
(* HTTP entry point (domain.Invoke)                                        *)
(***************************************************************************)
\* answers every pipeline result with 200
StatusCode_AlwaysOK(response) == 200

StatusCode(response) ==
  IF ~response.Success THEN 400 ELSE 200

\* a router that takes every POST for a waste sorting request
IsWasteSortingRequest_AnyPost(r) ==
  r.method = "POST"

IsWasteSortingRequest(r) ==
  r.method = "POST" /\ Contains(r.contentType, "multipart/form-data")

CorsHeaders ==
  ("Access-Control-Allow-Origin" :> "*")
  @@ ("Access-Control-Allow-Methods" :> "POST, OPTIONS")
  @@ ("Access-Control-Allow-Headers" :> "Content-Type")
  @@ ("Access-Control-Max-Age" :> "86400")

\* headers http.Error sets before it writes the status
PlainTextHeaders ==
  ("Content-Type" :> "text/plain; charset=utf-8")
  @@ ("X-Content-Type-Options" :> "nosniff")

\* header WriteJSONResponse sets before it writes the status
JsonHeaders == ("Content-Type" :> "application/json")

\* an entry that checks the request context before the method
InvokeEntry_ContextFirst(r) ==
  IF r.ctxErr THEN "context_invalid"
  ELSE IF r.method = "OPTIONS" THEN "preflight"
  ELSE "construct"

\* Invoke from its entry to the call of NewContainer: the branch taken
InvokeEntry(r) ==
  IF r.method = "OPTIONS" THEN "preflight"
  ELSE IF r.ctxErr THEN "context_invalid"
  ELSE "construct"

\* what NewContainer has opened when it returns with the given outcome
ConstructedBy(outcome) ==
  IF outcome = "failed to initialize logger" THEN {}
  ELSE IF outcome = "failed to initialize tracer" THEN {"logger"}
  ELSE {"logger", "tracer"}

\* HandleRequest got past r.FormFile("image") and deferred file.Close()
FileOpened(out) ==
  out.kind # "return" \/ out.step \in {"postal_code", "image_type"}

\* a context that is cut off from the request, like context.Background()
GatewayContext_Background(ctxErr, cancelledNow) == FALSE

\* the state of spanCtx, the context HandleRequest hands to both gateways:
\* derived from r.Context(), done as soon as the request context is
GatewayContext(ctxErr, cancelledNow) == ctxErr \/ cancelledNow

ContainerOutcomes ==
  {"ok", "failed to initialize logger", "failed to initialize tracer",
   "failed to create Gemini client"}

(***************************************************************************)
(* Inputs of the pipeline                                                  *)
(***************************************************************************)
Methods == {"OPTIONS", "POST", "GET"}

\* a Content-Type header: the media type as written, then its parameters;
\* the text multipart/form-data occurs in a header only as a whole token
RequestContentTypes ==
  {<<"multipart/form-data", "; boundary=x">>,
   <<"Multipart/Form-Data", "; boundary=x">>,
   <<"multipart/form-data">>,
   <<"application/json">>,
   <<"application/json", "; x=", "multipart/form-data">>,
   <<>>}

PostalCodes ==
  {<<>>,
   <<"1", "0", "1", "1", "5">>,
   <<"0", "1", "0", "0", "1">>,
   <<"9", "9", "9">>,
   <<"0", "0", "9", "9", "9">>}

RecaptchaCodes == {"", "tok"}

Languages == {"de", "en", "uk", "", "EN", "xx"}

DeclaredTypes ==
  {"image/jpeg", "image/webp", "image/JPEG", "image/png; x=y", "",
   "text/plain"}

ImageData == {"jpeg bytes", "text bytes"}

Uploads ==
  {NoFile} \cup
  {[present |-> TRUE, contentType |-> t, data |-> d] :
     t \in DeclaredTypes, d \in ImageData}

Requests ==
  [method : Methods,
   contentType : RequestContentTypes,
   ctxErr : BOOLEAN,
   bodyOk : BOOLEAN,
   oversize : BOOLEAN,
   postal_code : PostalCodes,
   recaptcha_code : RecaptchaCodes,
   language : Languages,
   image : Uploads]

Environments ==
  [PROJECT_ID : {"", "my-project"}, RECAPTCHA_SITE_KEY : {"", "site-key"}]

ScoreTenths == {0, 3, 5, 9}

Assessments ==
  [kind : {"assessment"},
   TokenProperties : {Nil} \cup [Valid : BOOLEAN],
   RiskAnalysis : {Nil} \cup [Score : ScoreTenths]]

VerifyBackendAnswers ==
  {[kind |-> "client_error"], [kind |-> "assessment_error"]} \cup Assessments

NotContacted == [kind |-> "not_contacted"]

\* the answers the verification backend can give under configuration conf
VerifyAnswersFor(conf) ==
  IF conf.ProjectID = "" \/ conf.RecaptchaSiteKey = ""
    THEN {NotContacted} ELSE VerifyBackendAnswers

Part(text) == [Text |-> text]

Candidate(parts) == [Content |-> [Parts |-> parts]]

CandidateSet ==
  {[Content |-> Nil],
   Candidate(<<>>),
   Candidate(<<Part(<<>>)>>),
   Candidate(<<Part(<<"<html>", "<body>", "<h2>X</h2>", "</body>",
                      "</html>">>)>>),
   Candidate(<<Part(<<"<h2>Y</h2>">>)>>),
   Candidate(<<Part(<<"<body>", " ", "\n", "</body>">>)>>),
   Candidate(<<Part(<<"<body class=\"a\">", "\n", "<p>Z</p>", "\n">>),
               Part(<<"<p>W</p>", " ", "</body>", "<p>V</p>", "</body>">>)>>),
   Candidate(<<Part(<<"<BODY>", "<p>U</p>", "</BODY>">>)>>),
   Candidate(<<Part(<<"<body>", "<body class=\"a\">", "<h2>N</h2>",
                      "</body>", "</body>">>)>>)}

RECURSIVE SeqsUpTo(_, _)
SeqsUpTo(S, n) ==
  IF n = 0 THEN {<<>>}
  ELSE LET shorter == SeqsUpTo(S, n - 1)
       IN shorter \cup {Append(s, x) : s \in shorter, x \in S}

AnalysisBackendAnswers ==
  {[kind |-> "error"]} \cup
  {[kind |-> "response", Candidates |-> cs] :
     cs \in SeqsUpTo(CandidateSet, MaxCandidates)}

(***************************************************************************)
(* The request state machine                                               *)
(***************************************************************************)
NoConfig == [loaded |-> FALSE]

Idle ==
  /\ pc = "idle"
  /\ cfg = NoConfig
  /\ containerErr = None
  /\ req = NoRequest
  /\ request = NoRequest
  /\ calls = <<>>
  /\ verifyAns = NoAnswer
  /\ readAns = None
  /\ analysisAns = NoAnswer
  /\ failedStep = None
  /\ resp = NoResponse
  /\ status = 0
  /\ body = <<>>
  /\ headers = <<>>
  /\ formParsed = None
  /\ cancelledAt = None
  /\ ctxDoneFor = {}
  /\ statusWrites = 0
  /\ resources = {}
  /\ opened = {}

HarnessOff ==
  /\ fn = None
  /\ input = <<>>
  /\ output = [applied |-> FALSE]

\* the invocations that can be in flight together
Reqs == 1..NumRequests

\* the no-op provider package otel holds before any SetTracerProvider
NoProvider == 0

NotInvoked ==
  [pc |-> "idle", tp |-> NoProvider, tr |-> NoProvider, wrote |-> FALSE,
   read |-> FALSE, span |-> "none"]

TracerOff ==
  /\ otelProvider = NoProvider
  /\ providers = [r \in Reqs |-> "none"]
  /\ inv = [r \in Reqs |-> NotInvoked]

Init ==
  /\ Idle
  /\ HarnessOff
  /\ TracerOff

\* a request reaches the function
Arrive ==
  /\ pc = "idle"
  /\ req' \in Requests
  /\ pc' = "arrived"
  /\ UNCHANGED <<cfg, containerErr, request, calls, verifyAns, readAns,
                 analysisAns, failedStep, resp, status, body, headers,
                 formParsed, cancelledAt, ctxDoneFor, statusWrites, resources,
                 opened,
                 harnessVars, tracerVars>>

\* the request context is cancelled, or its deadline elapses, while Invoke
\* is blocked in NewContainer, VerifyToken or GenerateContent, or while
\* ProcessWasteImage is blocked in verifyRecaptcha or processImageWithGemini
Cancel ==
  /\ pc \in {"container", "verify", "analysis", "verifyRecaptcha",
            "processImageWithGemini"}
  /\ cancelledAt = None
  /\ cancelledAt' = pc
  /\ UNCHANGED <<pc, ctxDoneFor, cfg, containerErr, req, request, calls,
                 verifyAns,
                 readAns, analysisAns, failedStep, resp, status, body,
                 headers, formParsed, statusWrites, resources, opened,
                 harnessVars, tracerVars>>

\* http.Error(w, text, code) on a writer whose headers are h
HttpError(text, code, h) ==
  /\ headers' = PlainTextHeaders @@ h
  /\ status' = code
  /\ statusWrites' = statusWrites + 1
  /\ body' = text
  /\ resp' = NoResponse
  /\ failedStep' = None
  /\ pc' = "done"

\* the pipeline returned without an error: Invoke picks the status and
\* WriteJSONResponse writes the response
WriteResult(out) ==
  /\ headers' = JsonHeaders @@ headers
  /\ status' = StatusCode(out.resp)
  /\ statusWrites' = statusWrites + 1
  /\ resp' = out.resp
  /\ failedStep' = out.step
  /\ body' = <<>>
  /\ pc' = "done"

\* Invoke after HandleRequest returned: 500 on an error, else the response
InvokeAnswer(out) ==
  IF out.err # ""
    THEN HttpError(<<"Internal server error">>, 500, headers)
    ELSE WriteResult(out)

\* Invoke from its entry to the call of container.NewContainer
InvokeBegin ==
  /\ pc = "arrived"
  /\ IF InvokeEntry(req) = "preflight"
       THEN /\ headers' = CorsHeaders
            /\ status' = 200
            /\ statusWrites' = statusWrites + 1
            /\ pc' = "done"
            /\ UNCHANGED <<body, resp, failedStep>>
     ELSE IF InvokeEntry(req) = "context_invalid"
       THEN HttpError(<<"Request context is invalid">>, 500, CorsHeaders)
       ELSE /\ headers' = CorsHeaders
            /\ pc' = "container"
            /\ UNCHANGED <<status, statusWrites, body, resp, failedStep>>
  /\ UNCHANGED <<cfg, containerErr, req, request, calls, verifyAns, readAns,
                 analysisAns, formParsed, cancelledAt, ctxDoneFor, resources,
                 opened,
                 harnessVars, tracerVars>>

\* NewContainer loads the configuration and returns; on success Invoke
\* routes the request and HandleRequest runs up to the call of VerifyToken;
\* it builds models.WasteSortingRequest once r.FormFile has succeeded
NewContainerReturn ==
  /\ pc = "container"
  /\ \E e \in Environments : cfg' = LoadConfig(e)
  /\ \E outcome \in ContainerOutcomes :
       /\ containerErr' = IF outcome = "ok" THEN "" ELSE outcome
       /\ IF outcome # "ok"
            THEN /\ HttpError(<<"Failed to initialize application: ",
                                outcome>>, 500, headers)
                 /\ opened' = ConstructedBy(outcome)
                 /\ resources' = ConstructedBy(outcome)
                 /\ UNCHANGED <<request, calls, formParsed>>
          ELSE IF ~IsWasteSortingRequest(req)
            THEN /\ HttpError(<<"Not found">>, 404, headers)
                 /\ opened' = ConstructedBy(outcome)
                 /\ resources' = {}
                 /\ UNCHANGED <<request, calls, formParsed>>
          ELSE LET out == HandleRequest_Begin(req)
               IN /\ calls' = out.calls
                  /\ formParsed' = IF out.step = "parse_form" THEN "error"
                                   ELSE "ok"
                  /\ opened' = ConstructedBy(outcome) \cup
                               (IF FileOpened(out) THEN {"file"} ELSE {})
                  /\ request' = IF FileOpened(out) THEN BuildRequest(req)
                                ELSE request
                  /\ IF out.kind = "return"
                       THEN /\ InvokeAnswer(out)
                            /\ resources' = {}
                       ELSE /\ pc' = "verify"
                            /\ resources' = ConstructedBy(outcome) \cup
                                            {"file"}
                            /\ UNCHANGED <<status, statusWrites, body, resp,
                                           failedStep, headers>>
  /\ UNCHANGED <<req, verifyAns, readAns, analysisAns, cancelledAt, ctxDoneFor,
                 harnessVars, tracerVars>>

\* VerifyToken returns; ProcessWasteImage runs up to the call of
\* GenerateContent
VerifyTokenReturn ==
  /\ pc = "verify"
  /\ \E backend \in VerifyAnswersFor(cfg), readOk \in BOOLEAN :
       LET verified == VerifyToken(cfg, backend)
           passed == /\ ~verified.panicked
                     /\ verified.err = ""
                     /\ verified.isValid
       IN /\ ~passed => readOk
          /\ verifyAns' = backend
          /\ readAns' = IF ~passed THEN None
                        ELSE IF readOk THEN "ok" ELSE "error"
          /\ opened' = opened \cup (IF verified.remote = "assessment"
                                       THEN {"recaptcha_client"} ELSE {})
          /\ ctxDoneFor' = ctxDoneFor \cup
                (IF /\ verified.remote # "none"
                    /\ GatewayContext(req.ctxErr, cancelledAt # None)
                   THEN {"VerifyToken"} ELSE {})
          /\ IF verified.panicked
               THEN /\ pc' = "crashed"
                    /\ resources' = {}
                    /\ UNCHANGED <<calls, status, statusWrites, body, resp,
                                   failedStep, headers>>
               ELSE LET out == ProcessWasteImage_Verified(request, verified,
                                                          readOk)
                    IN /\ calls' = calls \o out.calls
                       /\ IF out.kind = "return"
                            THEN InvokeAnswer(out) /\ resources' = {}
                            ELSE /\ pc' = IF out.kind = "VerifyToken"
                                           THEN "verify" ELSE "analysis"
                                 /\ UNCHANGED <<status, statusWrites, body,
                                                resp, failedStep, headers,
                                                resources>>
  /\ UNCHANGED <<cfg, containerErr, req, request, analysisAns, formParsed,
                 cancelledAt, harnessVars, tracerVars>>

\* GenerateContent returns; ProcessWasteImage runs to its end
GenerateContentReturn ==
  /\ pc = "analysis"
  /\ ctxDoneFor' = ctxDoneFor \cup
        (IF GatewayContext(req.ctxErr, cancelledAt # None)
           THEN {"GenerateContent"} ELSE {})
  /\ \E backend \in AnalysisBackendAnswers :
       /\ analysisAns' = backend
       /\ InvokeAnswer(ProcessWasteImage_Analysed(request,
                                                  GeminiResult(backend)))
  /\ resources' = {}
  /\ UNCHANGED <<cfg, containerErr, req, request, calls, verifyAns, readAns,
                 formParsed, cancelledAt, opened, harnessVars, tracerVars>>

\* the request is over: nothing of it outlives the call
Finish ==
  /\ pc \in {"done", "crashed"}
  /\ pc' = "idle"
  /\ cfg' = NoConfig
  /\ containerErr' = None
  /\ req' = NoRequest
  /\ request' = NoRequest
  /\ calls' = <<>>
  /\ verifyAns' = NoAnswer
  /\ readAns' = None
  /\ analysisAns' = NoAnswer
  /\ failedStep' = None
  /\ resp' = NoResponse
  /\ status' = 0
  /\ body' = <<>>
  /\ headers' = <<>>
  /\ formParsed' = None
  /\ cancelledAt' = None
  /\ ctxDoneFor' = {}
  /\ statusWrites' = 0
  /\ resources' = {}
  /\ opened' = {}
  /\ UNCHANGED <<harnessVars, tracerVars>>

Next ==
  \/ Arrive
  \/ InvokeBegin
  \/ NewContainerReturn
  \/ Cancel
  \/ VerifyTokenReturn
  \/ GenerateContentReturn
  \/ Finish

Spec == Init /\ [][Next]_vars


(***************************************************************************)
(* The single-function endpoint ProcessWasteImage(w, r) of package         *)
(* wastesorting (unnamed/part_001): the same pipeline written as one HTTP  *)
(* function, with its own catalog, status codes and analysis step.         *)
(***************************************************************************)
EndpointHeaders ==
  ("Access-Control-Allow-Origin" :> "*")
  @@ ("Access-Control-Allow-Methods" :> "POST, OPTIONS")
  @@ ("Access-Control-Allow-Headers" :> "Content-Type, Authorization")
  @@ ("Content-Type" :> "application/json")

EndpointEnvironments ==
  [GOOGLE_CLOUD_PROJECT : {"", "my-project"},
   RECAPTCHA_SITE_KEY : {"", "site-key"},
   GEMINI_API_KEY : {"", "api-key"}]

\* the package-level catalog: five languages, with the strings of the
\* Localizer for these languages
endpointErrorMessages ==
  [l \in {"en", "de", "ru", "tr", "pl"} |-> errorMessages[l]]

getErrorMessage(language, messageType) ==
  IF language \in DOMAIN endpointErrorMessages /\ messageType \in MessageTypes
    THEN MessageField(endpointErrorMessages[language], messageType)
  ELSE IF "en" \in DOMAIN endpointErrorMessages /\ messageType \in MessageTypes
    THEN MessageField(endpointErrorMessages["en"], messageType)
    ELSE GenericErrorMessage

\* what the function is about to write, or the gateway it is blocked in
EndpointReturn(response, code, step, trace) ==
  [kind |-> "return", resp |-> response, code |-> code, step |-> step,
   calls |-> trace]

EndpointBlocked(gateway, trace) ==
  [kind |-> gateway, resp |-> NoResponse, code |-> 0, step |-> None,
   calls |-> trace]

\* writeErrorResponse(w, message, language, statusCode)
writeErrorResponse(message, code, step, trace) ==
  EndpointReturn(Response(FALSE, <<>>, message), code, step, trace)

\* ProcessWasteImage from the method check to the call of verifyRecaptcha
ProcessWasteImage_Begin(r) ==
  IF r.method # "POST"
    THEN writeErrorResponse("Method not allowed", 405, "method", <<>>)
  ELSE IF ~ParseMultipartForm(r)
    THEN writeErrorResponse("Failed to parse form", 400, "parse_form", <<>>)
  ELSE LET language == IF r.language \notin supportedLanguages THEN "en"
                       ELSE r.language
       IN IF r.postal_code = <<>> \/ r.recaptcha_code = ""
            THEN writeErrorResponse(getErrorMessage(language,
                                                    "missing_fields"),
                                    400, "required_fields", <<>>)
          ELSE IF ~isValidGermanPostalCode(r.postal_code)
            THEN writeErrorResponse(getErrorMessage(language,
                                                    "invalid_postal_code"),
                                    400, "postal_code",
                                    <<"isValidGermanPostalCode">>)
          ELSE IF ~r.image.present
            THEN writeErrorResponse(getErrorMessage(language,
                                                    "invalid_image"),
                                    400, "form_file",
                                    <<"isValidGermanPostalCode">>)
          ELSE IF ~isValidImageFile(r.image)
            THEN writeErrorResponse(getErrorMessage(language,
                                                    "invalid_image"),
                                    400, "image_type",
                                    <<"isValidGermanPostalCode",
                                      "isValidImageFile">>)
            ELSE EndpointBlocked("verifyRecaptcha",
                                 <<"isValidGermanPostalCode",
                                   "isValidImageFile", "verifyRecaptcha">>)

\* verifyRecaptcha(ctx, token): a boolean, every error is logged and false
verifyRecaptcha(e, backend) ==
  IF e.GOOGLE_CLOUD_PROJECT = "" \/ e.RECAPTCHA_SITE_KEY = ""
    THEN [isValid |-> FALSE, panicked |-> FALSE, remote |-> "none"]
  ELSE IF backend.kind = "client_error"
    THEN [isValid |-> FALSE, panicked |-> FALSE, remote |-> "client"]
  ELSE IF backend.kind = "assessment_error"
    THEN [isValid |-> FALSE, panicked |-> FALSE, remote |-> "assessment"]
  ELSE IF backend.TokenProperties = Nil
    THEN [isValid |-> FALSE, panicked |-> TRUE, remote |-> "assessment"]
  ELSE IF ~backend.TokenProperties.Valid
    THEN [isValid |-> FALSE, panicked |-> FALSE, remote |-> "assessment"]
  ELSE IF backend.RiskAnalysis = Nil
    THEN [isValid |-> FALSE, panicked |-> TRUE, remote |-> "assessment"]
  ELSE [isValid |-> backend.RiskAnalysis.Score >= ScoreThreshold,
        panicked |-> FALSE, remote |-> "assessment"]

\* the answers the verification backend can give to verifyRecaptcha
EndpointVerifyAnswers(e) ==
  IF e.GOOGLE_CLOUD_PROJECT = "" \/ e.RECAPTCHA_SITE_KEY = ""
    THEN {NotContacted} ELSE VerifyBackendAnswers

\* ProcessWasteImage after verifyRecaptcha returned: processImageWithGemini
\* up to the call of GenerateContent
ProcessWasteImage_Verified_Endpoint(r, e, verified, clientOk, readOk) ==
  LET language == IF r.language \notin supportedLanguages THEN "en"
                  ELSE r.language
      failed == getErrorMessage(language, "processing_error")
  IN IF ~verified.isValid
       THEN writeErrorResponse(getErrorMessage(language, "recaptcha_failed"),
                               400, "verify", <<>>)
     ELSE IF e.GEMINI_API_KEY = ""
       THEN writeErrorResponse(failed, 500, "analysis", <<>>)
     ELSE IF ~clientOk
       THEN writeErrorResponse(failed, 500, "analysis", <<>>)
     ELSE IF ~readOk
       THEN writeErrorResponse(failed, 500, "analysis", <<"ReadAll">>)
       ELSE EndpointBlocked("GenerateContent",
                            <<"ReadAll", "GenerateContent">>)

\* the rest of processImageWithGemini: the text parts of the first
\* candidate, as they are
EndpointGeminiResult(backend) ==
  IF backend.kind = "error"
    THEN [html |-> <<>>, err |-> "failed to generate content",
          panicked |-> FALSE]
  ELSE IF Len(backend.Candidates) = 0
    THEN [html |-> <<>>, err |-> "no response from Gemini",
          panicked |-> FALSE]
  ELSE IF backend.Candidates[1].Content = Nil
    THEN [html |-> <<>>, err |-> "", panicked |-> TRUE]
    ELSE [html |-> ConcatParts(backend.Candidates[1].Content.Parts),
          err |-> "", panicked |-> FALSE]

\* ProcessWasteImage after processImageWithGemini returned
ProcessWasteImage_Analysed_Endpoint(r, result) ==
  LET language == IF r.language \notin supportedLanguages THEN "en"
                  ELSE r.language
  IN IF result.err # ""
       THEN writeErrorResponse(getErrorMessage(language, "processing_error"),
                               500, "analysis", <<>>)
       ELSE EndpointReturn(Response(TRUE, result.html, ""), 200, None, <<>>)

\* w.WriteHeader(statusCode) and json.NewEncoder(w).Encode(response)
EndpointWrite(out) ==
  /\ status' = out.code
  /\ statusWrites' = statusWrites + 1
  /\ resp' = out.resp
  /\ failedStep' = out.step
  /\ pc' = "done"

\* ProcessWasteImage from its entry to the call of verifyRecaptcha
ProcessWasteImageBegin ==
  /\ pc = "arrived"
  /\ headers' = EndpointHeaders
  /\ \E e \in EndpointEnvironments : cfg' = e
  /\ IF req.method = "OPTIONS"
       THEN /\ status' = 200
            /\ statusWrites' = statusWrites + 1
            /\ pc' = "done"
            /\ UNCHANGED <<resp, failedStep, calls, formParsed, opened,
                           resources>>
       ELSE LET out == ProcessWasteImage_Begin(req)
            IN /\ calls' = out.calls
               /\ formParsed' = IF out.step = "method" THEN None
                                ELSE IF out.step = "parse_form" THEN "error"
                                ELSE "ok"
               /\ opened' = IF out.kind # "return" \/ out.step = "image_type"
                              THEN {"file"} ELSE {}
               /\ IF out.kind = "return"
                    THEN EndpointWrite(out) /\ resources' = {}
                    ELSE /\ pc' = "verifyRecaptcha"
                         /\ resources' = {"file"}
                         /\ UNCHANGED <<status, statusWrites, resp,
                                        failedStep>>
  /\ UNCHANGED <<containerErr, req, request, verifyAns, readAns, analysisAns,
                 body, cancelledAt, ctxDoneFor, harnessVars, tracerVars>>

\* verifyRecaptcha returns; processImageWithGemini runs up to the call of
\* GenerateContent
VerifyRecaptchaReturn ==
  /\ pc = "verifyRecaptcha"
  /\ \E backend \in EndpointVerifyAnswers(cfg),
        clientOk \in BOOLEAN, readOk \in BOOLEAN :
       LET verified == verifyRecaptcha(cfg, backend)
           keyed == /\ ~verified.panicked
                    /\ verified.isValid
                    /\ cfg.GEMINI_API_KEY # ""
       IN /\ ~keyed => clientOk
          /\ ~(keyed /\ clientOk) => readOk
          /\ verifyAns' = backend
          /\ readAns' = IF ~(keyed /\ clientOk) THEN None
                        ELSE IF readOk THEN "ok" ELSE "error"
          /\ ctxDoneFor' = ctxDoneFor \cup
                (IF /\ verified.remote # "none"
                    /\ GatewayContext(req.ctxErr, cancelledAt # None)
                   THEN {"verifyRecaptcha"} ELSE {})
          /\ opened' = opened \cup
                       (IF verified.remote = "assessment"
                          THEN {"recaptcha_client"} ELSE {}) \cup
                       (IF keyed /\ clientOk THEN {"gemini_client"} ELSE {})
          /\ IF verified.panicked
               THEN /\ pc' = "crashed"
                    /\ resources' = {}
                    /\ UNCHANGED <<calls, status, statusWrites, resp,
                                   failedStep>>
               ELSE LET out == ProcessWasteImage_Verified_Endpoint(
                                 req, cfg, verified, clientOk, readOk)
                    IN /\ calls' = calls \o out.calls
                       /\ IF out.kind = "return"
                            THEN EndpointWrite(out) /\ resources' = {}
                            ELSE /\ pc' = "processImageWithGemini"
                                 /\ resources' = {"file", "gemini_client"}
                                 /\ UNCHANGED <<status, statusWrites, resp,
                                                failedStep>>
  /\ UNCHANGED <<cfg, containerErr, req, request, analysisAns, body, headers,
                 formParsed, cancelledAt, harnessVars, tracerVars>>

\* GenerateContent returns; ProcessWasteImage runs to its end
EndpointGenerateContentReturn ==
  /\ pc = "processImageWithGemini"
  /\ ctxDoneFor' = ctxDoneFor \cup
        (IF GatewayContext(req.ctxErr, cancelledAt # None)
           THEN {"GenerateContent"} ELSE {})
  /\ \E backend \in AnalysisBackendAnswers :
       LET result == EndpointGeminiResult(backend)
       IN /\ analysisAns' = backend
          /\ IF result.panicked
               THEN /\ pc' = "crashed"
                    /\ UNCHANGED <<status, statusWrites, resp, failedStep>>
               ELSE EndpointWrite(ProcessWasteImage_Analysed_Endpoint(
                                    req, result))
  /\ resources' = {}
  /\ UNCHANGED <<cfg, containerErr, req, request, calls, verifyAns, readAns,
                 body, headers, formParsed, cancelledAt, opened,
                 harnessVars, tracerVars>>

NextEndpoint ==
  \/ Arrive
  \/ ProcessWasteImageBegin
  \/ VerifyRecaptchaReturn
  \/ EndpointGenerateContentReturn
  \/ Cancel
  \/ Finish

SpecEndpoint == Init /\ [][NextEndpoint]_vars

\* the program with both of its registered HTTP functions: a request is
\* served by Invoke or by ProcessWasteImage
NextFunctions ==
  \/ Arrive
  \/ InvokeBegin
  \/ NewContainerReturn
  \/ VerifyTokenReturn
  \/ GenerateContentReturn
  \/ ProcessWasteImageBegin
  \/ VerifyRecaptchaReturn
  \/ EndpointGenerateContentReturn
  \/ Cancel
  \/ Finish

SpecFunctions == Init /\ [][NextFunctions]_vars
(***************************************************************************)
(* Pure functions, applied to inputs drawn from bounded sets               *)
(***************************************************************************)
NotApplied == [applied |-> FALSE]

Applied(value) == [applied |-> TRUE, value |-> value]

\* the 25 supported codes, codes outside them, and codes of other case
LanguageInputs ==
  supportedLanguages \cup
  {"", "EN", "De", "xx", "en-US", "nl", "pt", "ja"}

MessageTypeInputs ==
  MessageTypes \cup {"", "unknown", "MISSING_FIELDS", "invalid_postal"}

InitLocalizer ==
  /\ Idle
  /\ TracerOff
  /\ fn = "Localizer"
  /\ input \in [language : LanguageInputs, messageType : MessageTypeInputs]
  /\ output = NotApplied

ApplyLocalizer ==
  /\ fn = "Localizer"
  /\ ~output.applied
  /\ output' = Applied([supported |-> IsLanguageSupported(input.language),
                        message |-> GetErrorMessage(input.language,
                                                    input.messageType)])
  /\ UNCHANGED <<pipelineVars, tracerVars, fn, input>>

SpecLocalizer == InitLocalizer /\ [][ApplyLocalizer]_vars

\* postal codes: digit strings of up to MaxPostalLen characters, and the
\* same with one character replaced by a character that is no ASCII digit
PostalDigits == {"0", "1", "8", "9"}

NonDigits == {" ", "-", "+", "a", "\n", "\\u0663"}

DigitStrings == UNION {[1..n -> PostalDigits] : n \in 0..MaxPostalLen}

PostalInputs ==
  DigitStrings \cup
  {[s EXCEPT ![i] = c] : s \in DigitStrings, i \in 1..MaxPostalLen,
                         c \in NonDigits}

InitPostal ==
  /\ Idle
  /\ TracerOff
  /\ fn = "isValidGermanPostalCode"
  /\ input \in PostalInputs
  /\ output = NotApplied

ApplyPostal ==
  /\ fn = "isValidGermanPostalCode"
  /\ ~output.applied
  /\ output' = Applied(isValidGermanPostalCode(input))
  /\ UNCHANGED <<pipelineVars, tracerVars, fn, input>>

SpecPostal == InitPostal /\ [][ApplyPostal]_vars

\* uploads: no file, or a file header with a declared type and image bytes
DeclaredTypeInputs ==
  {"image/jpeg", "image/jpg", "image/png", "image/gif", "image/webp",
   "image/JPEG", "Image/png", "IMAGE/GIF", "image/png; x=y",
   "image/jpeg; charset=binary", "", " image/png", "image/png ",
   "image/bmp", "image/svg+xml", "image/tiff", "image/", "image",
   "jpeg", "text/plain", "text/html", "application/pdf",
   "application/octet-stream", "video/mp4", "*/*"}

ImageDataInputs == {"jpeg bytes", "png bytes", "text bytes", ""}

UploadInputs ==
  {NoFile} \cup
  {[present |-> TRUE, contentType |-> t, data |-> d] :
     t \in DeclaredTypeInputs, d \in ImageDataInputs}

\* the *multipart.FileHeader of an upload, nil when there is none
FileHeader(upload) ==
  IF ~upload.present THEN NoFile
  ELSE [present |-> TRUE, contentType |-> upload.contentType]

InitImage ==
  /\ Idle
  /\ TracerOff
  /\ fn = "isValidImageFile"
  /\ input \in UploadInputs
  /\ output = NotApplied

ApplyImage ==
  /\ fn = "isValidImageFile"
  /\ ~output.applied
  /\ output' = Applied(isValidImageFile(FileHeader(input)))
  /\ UNCHANGED <<pipelineVars, tracerVars, fn, input>>

SpecImage == InitImage /\ [][ApplyImage]_vars


\* VerifyToken under every configuration and every answer of the backend
VerifyScoreInputs == 0..10

VerifyInputs ==
  [conf : {LoadConfig(e) : e \in Environments},
   backend : {[kind |-> "client_error"], [kind |-> "assessment_error"]} \cup
             [kind : {"assessment"},
              TokenProperties : {Nil} \cup [Valid : BOOLEAN],
              RiskAnalysis : {Nil} \cup [Score : VerifyScoreInputs]]]

InitVerify ==
  /\ Idle
  /\ TracerOff
  /\ fn = "VerifyToken"
  /\ input \in VerifyInputs
  /\ output = NotApplied

ApplyVerify ==
  /\ fn = "VerifyToken"
  /\ ~output.applied
  /\ output' = Applied(VerifyToken(input.conf, input.backend))
  /\ UNCHANGED <<pipelineVars, tracerVars, fn, input>>

SpecVerify == InitVerify /\ [][ApplyVerify]_vars

\* processImageWithGemini on every candidate list the backend can return
AnalysisCandidates ==
  CandidateSet \cup
  {Candidate(<<Part(<<"<Body>", "<p>T</p>", "</Body>">>)>>),
   Candidate(<<Part(<<"<body>", "<p>S</p>", "</BODY>">>)>>),
   Candidate(<<Part(<<"<BODY class=\"a\">", "\n", "<p>R</p>", "\n",
                      "</BODY>">>)>>),
   Candidate(<<Part(<<"<body>", "<html>", "<body>", "<h2>Q</h2>", "</body>",
                      "</html>", "</body>">>)>>)}

AnalysisInputs ==
  {[kind |-> "response", Candidates |-> cs] :
     cs \in SeqsUpTo(AnalysisCandidates, MaxCandidates)}

InitAnalysis ==
  /\ Idle
  /\ TracerOff
  /\ fn = "processImageWithGemini"
  /\ input \in AnalysisInputs
  /\ output = NotApplied

ApplyAnalysis ==
  /\ fn = "processImageWithGemini"
  /\ ~output.applied
  /\ output' = Applied(GeminiResult(input))
  /\ UNCHANGED <<pipelineVars, tracerVars, fn, input>>

SpecAnalysis == InitAnalysis /\ [][ApplyAnalysis]_vars

(***************************************************************************)
(* Concurrent invocations and the tracer (invoke.go, container.go,         *)
(* libs/tracer/tracer.go).  Each invocation creates a TracerProvider of    *)
(* its own, named by the invocation; package otel holds one provider for   *)
(* the whole process.                                                      *)
(***************************************************************************)
\* Invoke reaches container.NewContainer
InvokeStart(r) ==
  /\ inv[r].pc = "idle"
  /\ inv' = [inv EXCEPT ![r].pc = "tracer_init"]
  /\ UNCHANGED <<otelProvider, providers, pipelineVars, harnessVars>>

\* tracer.Init fails on the exporter or the resource: NewContainer returns
\* the error and Invoke answers 500
TracerInitFail(r) ==
  /\ inv[r].pc = "tracer_init"
  /\ inv' = [inv EXCEPT ![r].pc = "done"]
  /\ UNCHANGED <<otelProvider, providers, pipelineVars, harnessVars>>

\* traceProvider = sdktrace.NewTracerProvider(...)
NewTracerProvider(r) ==
  /\ inv[r].pc = "tracer_init"
  /\ providers' = [providers EXCEPT ![r] = "running"]
  /\ inv' = [inv EXCEPT ![r].pc = "set_provider", ![r].tp = r]
  /\ UNCHANGED <<otelProvider, pipelineVars, harnessVars>>

\* otel.SetTracerProvider(traceProvider)
SetTracerProvider(r) ==
  /\ inv[r].pc = "set_provider"
  /\ otelProvider' = inv[r].tp
  /\ inv' = [inv EXCEPT ![r].pc = "get_provider", ![r].wrote = TRUE]
  /\ UNCHANGED <<providers, pipelineVars, harnessVars>>

\* tracer = otel.GetTracerProvider().Tracer(applicationName)
GetTracerProvider(r) ==
  /\ inv[r].pc = "get_provider"
  /\ inv' = [inv EXCEPT ![r].pc = "constructed", ![r].tr = otelProvider,
                        ![r].read = TRUE]
  /\ UNCHANGED <<otelProvider, providers, pipelineVars, harnessVars>>

\* genai.NewClient fails: NewContainer returns the error, Invoke answers 500
\* and its deferred Close is never registered
GeminiClientFail(r) ==
  /\ inv[r].pc = "constructed"
  /\ inv' = [inv EXCEPT ![r].pc = "done"]
  /\ UNCHANGED <<otelProvider, providers, pipelineVars, harnessVars>>

\* appContainer.Tracer.Start(ctx, "Application Invoke"): a tracer of a
\* provider that was shut down hands out a span that records nothing
TracerStart(r) ==
  /\ inv[r].pc = "constructed"
  /\ inv' = [inv EXCEPT ![r].pc = "handling",
                        ![r].span = IF providers[inv[r].tr] = "running"
                                      THEN "recording" ELSE "dropped"]
  /\ UNCHANGED <<otelProvider, providers, pipelineVars, harnessVars>>

\* the request is answered and the deferred span.End() runs
SpanEnd(r) ==
  /\ inv[r].pc = "handling"
  /\ inv' = [inv EXCEPT ![r].pc = "closing",
                        ![r].span = IF inv[r].span = "recording"
                                        /\ providers[inv[r].tr] = "running"
                                      THEN "exported" ELSE "dropped"]
  /\ UNCHANGED <<otelProvider, providers, pipelineVars, harnessVars>>

\* the deferred appContainer.Tracer.Close(ctx): t.tp.Shutdown(ctx)
TracerClose(r) ==
  /\ inv[r].pc = "closing"
  /\ providers' = [providers EXCEPT ![inv[r].tp] = "shutdown"]
  /\ inv' = [inv EXCEPT ![r].pc = "done"]
  /\ UNCHANGED <<otelProvider, pipelineVars, harnessVars>>

NextTracer ==
  \E r \in Reqs :
    \/ InvokeStart(r)
    \/ TracerInitFail(r)
    \/ NewTracerProvider(r)
    \/ SetTracerProvider(r)
    \/ GetTracerProvider(r)
    \/ GeminiClientFail(r)
    \/ TracerStart(r)
    \/ SpanEnd(r)
    \/ TracerClose(r)

SpecTracer == Init /\ [][NextTracer]_vars
(***************************************************************************)
(* Reference notions used by the properties                                *)
(***************************************************************************)
\* the 25 supported language codes as the specification lists them
SupportedCodes ==
  {"de", "en", "tr", "ru", "pl", "ar", "ku", "it", "bs", "hr", "sr", "ro",
   "el", "es", "fr", "hi", "ur", "vi", "zh", "fa", "ps", "ta", "sq", "da",
   "uk"}

ErrorKinds ==
  {"invalid_postal_code", "invalid_image", "recaptcha_failed",
   "processing_error", "missing_fields"}

AllowedImageTypes ==
  {"image/jpeg", "image/jpg", "image/png", "image/gif", "image/webp"}

\* value of a string of decimal digits, by positional weight
RECURSIVE Pow10(_)
Pow10(n) == IF n = 0 THEN 1 ELSE 10 * Pow10(n - 1)

RECURSIVE WeightedSum(_, _)
WeightedSum(s, i) ==
  IF i > Len(s) THEN 0
  ELSE DigitValue(s[i]) * Pow10(Len(s) - i) + WeightedSum(s, i + 1)

PostalCodeIsValid(s) ==
  /\ Len(s) = 5
  /\ \A i \in 1..Len(s) : s[i] \in Digits
  /\ 1001 <= WeightedSum(s, 1)
  /\ WeightedSum(s, 1) <= 99998

ImageIsValid(upload) ==
  upload.present /\ upload.contentType \in AllowedImageTypes

\* the language the request is answered in
AnswerLanguage ==
  IF req.language \in SupportedCodes THEN req.language ELSE "en"

\* the request carries a multipart form that can be parsed: its media type
\* is multipart/form-data in any case, with a boundary and a readable body
FormIsParsable ==
  /\ req.contentType # <<>>
  /\ Head(req.contentType) \in {"multipart/form-data", "Multipart/Form-Data"}
  /\ \E i \in 2..Len(req.contentType) : req.contentType[i] = "; boundary=x"
  /\ req.bodyOk

\* HandleRequest ran for the request and Invoke wrote its response
Answered == pc = "done" /\ resp # NoResponse

Validators == {"isValidGermanPostalCode", "isValidImageFile"}

Gateways == {"VerifyToken", "GenerateContent"}

VerificationRefused ==
  LET verified == VerifyToken(cfg, verifyAns)
  IN verified.err # "" \/ ~verified.isValid

AnalysisFailed ==
  readAns = "error" \/ GeminiResult(analysisAns).err # ""

(***************************************************************************)
(* C1: for every POST whose form parses, the outcome is that of the first  *)
(* failing check in the order missing_fields, invalid_postal_code,         *)
(* invalid_image (file absent or type not allow-listed), recaptcha_failed, *)
(* processing_error, else success; an invalid postal code with no image    *)
(* file ends in invalid_postal_code.                                       *)
(***************************************************************************)
FirstFailingCheck ==
  IF req.postal_code = <<>> \/ req.recaptcha_code = "" THEN "missing_fields"
  ELSE IF ~PostalCodeIsValid(req.postal_code) THEN "invalid_postal_code"
  ELSE IF ~ImageIsValid(req.image) THEN "invalid_image"
  ELSE IF VerificationRefused THEN "recaptcha_failed"
  ELSE IF AnalysisFailed THEN "processing_error"
  ELSE "success"

C1_FirstFailingCheckWins ==
  (Answered /\ FormIsParsable) =>
    IF FirstFailingCheck = "success"
      THEN resp.Success
      ELSE /\ ~resp.Success
           /\ resp.Error = GetErrorMessage(AnswerLanguage, FirstFailingCheck)

(***************************************************************************)
(* C2: no gateway (VerifyToken, GenerateContent) is invoked for a request  *)
(* whose postal code is empty or invalid, whose recaptcha code is empty,   *)
(* whose image file is absent or whose declared type is not allow-listed;  *)
(* every validator runs before the first gateway call.                     *)
(***************************************************************************)
C2_ValidationBeforeGateways ==
  /\ (\E i \in 1..Len(calls) : calls[i] \in Gateways) =>
       /\ req.postal_code # <<>>
       /\ PostalCodeIsValid(req.postal_code)
       /\ req.recaptcha_code # ""
       /\ ImageIsValid(req.image)
       /\ \A v \in Validators : Contains(calls, v)
  /\ \A i, j \in 1..Len(calls) :
       (calls[i] \in Validators /\ calls[j] \in Gateways) => i < j

C2_Witness ==
  /\ pc = "analysis"
  /\ Contains(calls, "VerifyToken")
  /\ Contains(calls, "GenerateContent")

(***************************************************************************)
(* C3: every result has html non-empty iff success and an error message    *)
(* non-empty iff not success.                                              *)
(***************************************************************************)
C3_HtmlIffSuccess ==
  resp # NoResponse =>
    /\ (resp.HTML # <<>>) <=> resp.Success
    /\ (resp.Error # "") <=> ~resp.Success

C3_Witness ==
  /\ Answered
  /\ resp.Success
  /\ resp.HTML # <<>>
  /\ Len(analysisAns.Candidates) = 2
  /\ CandidateText(analysisAns.Candidates[1]) = <<>>

(***************************************************************************)
(* C4: for every POST handled by the pipeline the status is 200 exactly    *)
(* when success is true and 400 exactly when it is false, for all failure  *)
(* kinds; every analysis failure gets the status of a validation failure.  *)
(***************************************************************************)
C4_StatusFollowsSuccess ==
  (Answered /\ req.method = "POST") =>
    /\ (status = 200) <=> resp.Success
    /\ (status = 400) <=> ~resp.Success
    /\ failedStep = "analysis" => status = 400

C4_Witness ==
  /\ Answered
  /\ analysisAns.kind = "response"
  /\ analysisAns.Candidates = <<>>
  /\ status = 400

(***************************************************************************)
(* C5: a multipart form parse failure and a failure to construct the       *)
(* dependencies are both answered with HTTP 500 and a non-localized        *)
(* generic message, and no validator or gateway runs.                      *)
(***************************************************************************)
ContainerFailed == pc = "done" /\ containerErr \notin {None, ""}

ParseFailed ==
  /\ pc = "done"
  /\ containerErr = ""
  /\ IsWasteSortingRequest(req)
  /\ ~FormIsParsable

C5_InfrastructureFailureIs500 ==
  (ContainerFailed \/ ParseFailed) =>
    /\ status = 500
    /\ calls = <<>>

\* C5 as amended: a failure to construct the dependencies is answered with
\* HTTP 500 and a non-localized plain-text message; a form parse failure is
\* answered with HTTP 400 and the non-localized JSON error "Failed to parse
\* form"; in neither case does a validator or gateway run.
C5_InfrastructureFailure ==
  /\ ContainerFailed =>
       /\ status = 500
       /\ resp = NoResponse
       /\ body = <<"Failed to initialize application: ", containerErr>>
       /\ calls = <<>>
  /\ ParseFailed =>
       /\ status = 400
       /\ resp = [Success |-> FALSE, HTML |-> <<>>,
                  Error |-> "Failed to parse form"]
       /\ calls = <<>>

C5_Witness ==
  /\ ParseFailed
  /\ status = 400
  /\ req.language = "de"
  /\ req.postal_code = <<"9", "9", "9">>

(***************************************************************************)
(* C6: for every request ending in one of the five failure terminals the   *)
(* error string is Localizer.errorMessage(L, K), K the kind of the step    *)
(* that failed, L the requested language if supported and else en; never a *)
(* raw upstream error text.                                                *)
(***************************************************************************)
KindOfStep ==
  [required_fields |-> "missing_fields",
   form_file |-> "invalid_image",
   postal_code |-> "invalid_postal_code",
   image_type |-> "invalid_image",
   verify |-> "recaptcha_failed",
   analysis |-> "processing_error"]

UpstreamErrorTexts ==
  {"missing reCAPTCHA configuration", "error creating reCAPTCHA client",
   "error creating reCAPTCHA assessment", "failed to generate content",
   "no response from Gemini", "no valid text response from Gemini"}

C6_LocalizedFailure ==
  (Answered /\ failedStep \in DOMAIN KindOfStep) =>
    /\ ~resp.Success
    /\ resp.Error = GetErrorMessage(AnswerLanguage, KindOfStep[failedStep])
    /\ resp.Error \notin UpstreamErrorTexts
    /\ (failedStep = "verify") = (Contains(calls, "VerifyToken")
                                  /\ ~Contains(calls, "ReadAll"))
    /\ (failedStep = "analysis") = Contains(calls, "ReadAll")

C6_Witness ==
  /\ Answered
  /\ failedStep = "verify"
  /\ verifyAns.kind = "assessment_error"
  /\ req.language = "xx"
  /\ resp.Error = "reCAPTCHA verification failed"

(***************************************************************************)
(* C7: for a language code outside the 25 supported codes (empty, missing, *)
(* or differently cased) isSupported is false and the request is answered  *)
(* exactly as the same request with "en" under the same gateway answers.   *)
(***************************************************************************)
C7_UnsupportedLanguageIsEnglish ==
  (Answered /\ req.language \notin SupportedCodes) =>
    LET twin == HandleRequest([req EXCEPT !.language = "en"], cfg,
                              verifyAns, readAns, analysisAns)
    IN /\ ~IsLanguageSupported(req.language)
       /\ resp = twin
       /\ status = StatusCode(twin)

C7_Witness ==
  /\ Answered
  /\ req.language = "EN"
  /\ failedStep = "postal_code"
  /\ resp.Error = "Invalid German postal code"

(***************************************************************************)
(* C8: errorMessage(code, kind) returns the language's own non-empty       *)
(* string, different from the generic fallback, for each supported code    *)
(* and each of the five kinds; the English string of the kind for a code   *)
(* without catalog entry; the generic fallback for any other kind.  The    *)
(* codes with a catalog entry are exactly the supported codes.             *)
(***************************************************************************)
KindField ==
  [invalid_postal_code |-> "InvalidPostalCode",
   invalid_image |-> "InvalidImage",
   recaptcha_failed |-> "RecaptchaFailed",
   processing_error |-> "ProcessingError",
   missing_fields |-> "MissingFields"]

EnglishMessages ==
  [invalid_postal_code |-> "Invalid German postal code",
   invalid_image |-> "Invalid image file",
   recaptcha_failed |-> "reCAPTCHA verification failed",
   processing_error |-> "Error processing your request",
   missing_fields |-> "Missing required fields"]

C8_ErrorMessageReference ==
  output.applied =>
    LET code == input.language
        kind == input.messageType
        message == output.value.message
    IN /\ (code \in SupportedCodes /\ kind \in ErrorKinds) =>
            /\ message = errorMessages[code][KindField[kind]]
            /\ message # ""
            /\ message # "An error occurred"
       /\ (code \notin DOMAIN errorMessages /\ kind \in ErrorKinds) =>
            message = EnglishMessages[kind]
       /\ kind \notin ErrorKinds => message = "An error occurred"
       /\ DOMAIN errorMessages = SupportedCodes
       /\ output.value.supported = (code \in SupportedCodes)

C8_Witness ==
  /\ output.applied
  /\ input.language = "en-US"
  /\ input.messageType = "processing_error"
  /\ output.value.message = "Error processing your request"

(***************************************************************************)
(* C9: isValidGermanPostalCode(S) is true iff S is exactly 5 ASCII decimal *)
(* digits whose decimal value v satisfies 1001 <= v <= 99998; "01001" and  *)
(* "99998" are accepted, "00999", "00000" and "99999" rejected, and so is  *)
(* every string of another length or with a non-digit.                     *)
(***************************************************************************)
C9_PostalCodeReference ==
  output.applied =>
    /\ output.value = PostalCodeIsValid(input)
    /\ input = <<"0", "1", "0", "0", "1">> => output.value
    /\ input = <<"9", "9", "9", "9", "8">> => output.value
    /\ input = <<"0", "0", "9", "9", "9">> => ~output.value
    /\ input = <<"0", "0", "0", "0", "0">> => ~output.value
    /\ input = <<"9", "9", "9", "9", "9">> => ~output.value
    /\ Len(input) # 5 => ~output.value
    /\ (\E i \in 1..Len(input) : input[i] \in NonDigits) => ~output.value

C9_Witness ==
  /\ output.applied
  /\ input = <<"0", "1", "0", "0", "1">>
  /\ output.value

(***************************************************************************)
(* C10: the image validator accepts iff a file header is present and its   *)
(* declared Content-Type equals one of image/jpeg, image/jpg, image/png,   *)
(* image/gif, image/webp byte for byte; other case, parameters, the empty  *)
(* string and every other type are rejected, whatever the image bytes.     *)
(***************************************************************************)
C10_ImageTypeReference ==
  output.applied =>
    /\ output.value = ImageIsValid(input)
    /\ \A other \in UploadInputs :
         (other.present /\ input.present
            /\ other.contentType = input.contentType) =>
           isValidImageFile(FileHeader(other)) = output.value

C10_Witness ==
  /\ output.applied
  /\ input.present
  /\ input.contentType = "image/JPEG"
  /\ ~output.value

(***************************************************************************)
(* C11: a request for which verification returns an error and the same     *)
(* request for which it returns false end alike: success=false, the same   *)
(* localized recaptcha_failed message, the same status, and no call of the *)
(* analysis gateway.                                                       *)
(***************************************************************************)
\* the answers under which VerifyToken returns an error or false
RefusingAnswers(conf) ==
  {vb \in VerifyAnswersFor(conf) :
     /\ ~VerifyToken(conf, vb).panicked
     /\ VerifyToken(conf, vb).err # "" \/ ~VerifyToken(conf, vb).isValid}

C11_VerificationFailuresAlike ==
  (Answered /\ verifyAns \in RefusingAnswers(cfg)) =>
    /\ ~resp.Success
    /\ resp.Error = GetErrorMessage(AnswerLanguage, "recaptcha_failed")
    /\ ~Contains(calls, "GenerateContent")
    /\ \A other \in RefusingAnswers(cfg) :
         /\ HandleRequest(req, cfg, other, readAns, analysisAns) = resp
         /\ StatusCode(HandleRequest(req, cfg, other, readAns, analysisAns))
              = status

C11_Witness ==
  /\ Answered
  /\ verifyAns.kind = "assessment"
  /\ verifyAns.TokenProperties # Nil
  /\ verifyAns.TokenProperties.Valid
  /\ verifyAns.RiskAnalysis # Nil
  /\ verifyAns.RiskAnalysis.Score = 3
  /\ [kind |-> "assessment_error"] \in RefusingAnswers(cfg)
  /\ status = 400

(***************************************************************************)
(* C12: a missing project identifier or site key at the first use of the   *)
(* verification is fatal for the request: HTTP 500 with a non-localized    *)
(* message, not a localized pipeline failure.                              *)
(***************************************************************************)
ConfigurationMissing ==
  cfg # NoConfig /\ (cfg.ProjectID = "" \/ cfg.RecaptchaSiteKey = "")

C12_ConfigurationErrorIs500 ==
  (pc = "done" /\ ConfigurationMissing /\ Contains(calls, "VerifyToken")) =>
    /\ status = 500
    /\ resp = NoResponse

(***************************************************************************)
(* C13: an OPTIONS request always gets status 200, an empty body and the   *)
(* CORS headers, whatever the configuration, the dependencies, the request *)
(* context, the headers and the body; no validator or gateway runs.        *)
(***************************************************************************)
C13_PreflightAlways200 ==
  (pc \in {"done", "crashed", "container", "verify", "analysis"}
     /\ req.method = "OPTIONS") =>
    /\ pc = "done"
    /\ status = 200
    /\ body = <<>>
    /\ resp = NoResponse
    /\ "Access-Control-Allow-Origin" \in DOMAIN headers
    /\ headers["Access-Control-Allow-Origin"] = "*"
    /\ headers["Access-Control-Allow-Methods"] = "POST, OPTIONS"
    /\ headers["Access-Control-Allow-Headers"] = "Content-Type"
    /\ "Content-Type" \notin DOMAIN headers
    /\ cfg = NoConfig
    /\ containerErr = None
    /\ formParsed = None
    /\ calls = <<>>

C13_Witness ==
  /\ pc = "done"
  /\ req.method = "OPTIONS"
  /\ req.ctxErr
  /\ ~req.bodyOk
  /\ status = 200

(***************************************************************************)
(* C14: every request whose method is neither POST nor OPTIONS, and every  *)
(* POST whose Content-Type is not multipart/form-data, is rejected with    *)
(* 404 or 405, without parsing the form or running a validator or gateway. *)
(***************************************************************************)
Unsupported ==
  \/ req.method \notin {"POST", "OPTIONS"}
  \/ /\ req.method = "POST"
     /\ \/ req.contentType = <<>>
        \/ Head(req.contentType) \notin {"multipart/form-data",
                                          "Multipart/Form-Data"}

C14_UnsupportedRejected ==
  (pc = "done" /\ Unsupported) =>
    /\ status \in {404, 405}
    /\ formParsed = None
    /\ calls = <<>>

\* the Content-Type header holds the text multipart/form-data as it is
\* written here
HasMultipartText ==
  \E i \in 1..Len(req.contentType) :
    req.contentType[i] = "multipart/form-data"

\* C14 as amended: such a request reaches no validator or gateway.  Invoke
\* answers 500 when the context is cancelled or NewContainer fails;
\* otherwise it answers 404 without parsing, unless the request is a POST
\* whose header holds the text multipart/form-data, which HandleRequest
\* fails to parse and Invoke answers 400.  ProcessWasteImage answers another
\* method 405 without parsing, and such a POST 400 once ParseMultipartForm
\* has refused it.
C14_UnsupportedNeverProcessed ==
  (/\ pc \in {"done", "crashed", "verify", "analysis", "verifyRecaptcha",
              "processImageWithGemini"}
   /\ Unsupported) =>
    /\ pc = "done"
    /\ calls = <<>>
    /\ request = NoRequest
    /\ verifyAns = NoAnswer
    /\ analysisAns = NoAnswer
    /\ \/ /\ headers = CorsHeaders @@ PlainTextHeaders
          /\ formParsed = None
          /\ resp = NoResponse
          /\ status = IF req.ctxErr \/ containerErr \notin {None, ""}
                        THEN 500 ELSE 404
          /\ status = 404 =>
               /\ body = <<"Not found">>
               /\ ~(req.method = "POST" /\ HasMultipartText)
       \/ /\ headers = CorsHeaders @@ JsonHeaders
          /\ req.method = "POST"
          /\ HasMultipartText
          /\ ~req.ctxErr
          /\ containerErr = ""
          /\ status = 400
          /\ formParsed = "error"
          /\ resp = ParseFailure
          /\ body = <<>>
       \/ /\ headers = EndpointHeaders
          /\ body = <<>>
          /\ IF req.method # "POST"
               THEN /\ status = 405
                    /\ formParsed = None
                    /\ resp = Response(FALSE, <<>>, "Method not allowed")
               ELSE /\ status = 400
                    /\ formParsed = "error"
                    /\ resp = ParseFailure

C14_Witness ==
  /\ pc = "done"
  /\ req.method = "POST"
  /\ req.contentType = <<"application/json">>
  /\ status = 404
  /\ req.bodyOk
  /\ req.image.present

\* a POST of another media type that Invoke hands to HandleRequest
C14_RoutedWitness ==
  /\ pc = "done"
  /\ req.method = "POST"
  /\ req.contentType = <<"application/json", "; x=", "multipart/form-data">>
  /\ headers = CorsHeaders @@ JsonHeaders
  /\ status = 400

\* a request of another method answered by ProcessWasteImage
C14_EndpointWitness ==
  /\ pc = "done"
  /\ req.method = "GET"
  /\ headers = EndpointHeaders
  /\ status = 405

(***************************************************************************)
(* C15: every response to a non-preflight request has Content-Type         *)
(* application/json and a body of shape {success, html?, error?}, on every *)
(* path.                                                                   *)
(***************************************************************************)
C15_AlwaysJson ==
  (pc = "done" /\ req.method # "OPTIONS") =>
    /\ "Content-Type" \in DOMAIN headers
    /\ headers["Content-Type"] = "application/json"
    /\ resp # NoResponse
    /\ body = <<>>

(***************************************************************************)
(* C16: a POST whose body exceeds 10 MiB is never processed by the         *)
(* pipeline: no validator and no gateway sees it.                          *)
(***************************************************************************)
C16_OversizeNeverProcessed ==
  (req # NoRequest /\ req.oversize) =>
    /\ calls = <<>>
    /\ request = NoRequest
    /\ (resp # NoResponse => ~resp.Success)

(***************************************************************************)
(* C18: within a request GenerateContent is invoked only after VerifyToken *)
(* returned (true, no error); after an error or false the image bytes are  *)
(* never read and the analysis backend is never called.                    *)
(***************************************************************************)
IndexOf(s, x) == CHOOSE i \in 1..Len(s) : s[i] = x

C18_AnalysisAfterVerification ==
  /\ (Contains(calls, "ReadAll") \/ Contains(calls, "GenerateContent")) =>
       /\ Contains(calls, "VerifyToken")
       /\ IndexOf(calls, "VerifyToken") < IndexOf(calls, "ReadAll")
       /\ verifyAns # NoAnswer
       /\ VerifyToken(cfg, verifyAns) =
            [isValid |-> TRUE, err |-> "", panicked |-> FALSE,
             remote |-> "assessment"]
  /\ Contains(calls, "GenerateContent") =>
       IndexOf(calls, "ReadAll") < IndexOf(calls, "GenerateContent")
  /\ (verifyAns # NoAnswer /\ verifyAns \in RefusingAnswers(cfg)) =>
       /\ ~Contains(calls, "ReadAll")
       /\ ~Contains(calls, "GenerateContent")
       /\ analysisAns = NoAnswer
  /\ pc = "analysis" => Contains(calls, "GenerateContent")

C18_Witness ==
  /\ pc = "done"
  /\ verifyAns.kind = "assessment"
  /\ verifyAns.TokenProperties # Nil
  /\ ~verifyAns.TokenProperties.Valid
  /\ calls = <<"isValidGermanPostalCode", "isValidImageFile", "VerifyToken">>

(***************************************************************************)
(* C19: no retries: a request invokes the verification gateway at most     *)
(* once and the analysis backend at most once, and the first upstream      *)
(* failure of either ends the request in its failure terminal.             *)
(***************************************************************************)
Count(s, x) == Cardinality({i \in 1..Len(s) : s[i] = x})

C19_NoRetries ==
  /\ Count(calls, "VerifyToken") <= 1
  /\ Count(calls, "GenerateContent") <= 1
  /\ (verifyAns # NoAnswer /\ VerifyToken(cfg, verifyAns).err # "") =>
       /\ pc = "done"
       /\ failedStep = "verify"
       /\ resp.Error = GetErrorMessage(AnswerLanguage, "recaptcha_failed")
  /\ (analysisAns # NoAnswer /\ analysisAns.kind = "error") =>
       /\ pc = "done"
       /\ failedStep = "analysis"
       /\ resp.Error = GetErrorMessage(AnswerLanguage, "processing_error")

C19_Witness ==
  /\ pc = "done"
  /\ analysisAns.kind = "error"
  /\ Count(calls, "VerifyToken") = 1
  /\ Count(calls, "GenerateContent") = 1

(***************************************************************************)
(* C17: under any interleaving of concurrent requests nothing written      *)
(* while handling one request is read or written while handling another.   *)
(***************************************************************************)
C17_NoSharedMutableState ==
  \A w \in Reqs, a \in Reqs :
    (w # a /\ inv[w].wrote) => (~inv[a].wrote /\ ~inv[a].read)

(***************************************************************************)
(* C20: VerifyToken returns an error without contacting the remote service *)
(* when the project identifier or the site key is empty, returns an error  *)
(* when client creation or the assessment call fails, and otherwise        *)
(* returns true exactly when the assessment reports a valid token and a    *)
(* risk score of at least 0.5: 0.5 is accepted, a valid token at 0.3 is    *)
(* refused, an invalid token is refused at any score.                      *)
(***************************************************************************)
\* the assessment reports tokenValid = true and riskScore >= 0.5
AssessmentAccepts(backend) ==
  /\ backend.kind = "assessment"
  /\ backend.TokenProperties # Nil
  /\ backend.TokenProperties = [Valid |-> TRUE]
  /\ backend.RiskAnalysis # Nil
  /\ backend.RiskAnalysis.Score \in {s \in VerifyScoreInputs : ~(s < 5)}

ReturnsTrue(result) ==
  result.isValid /\ result.err = "" /\ ~result.panicked

C20_VerifyTokenDecision ==
  (fn = "VerifyToken" /\ output.applied) =>
    LET conf == input.conf
        backend == input.backend
        result == output.value
    IN  /\ (conf.ProjectID = "" \/ conf.RecaptchaSiteKey = "") =>
             /\ result.err # ""
             /\ ~result.isValid
             /\ result.remote = "none"
        /\ (conf.ProjectID # "" /\ conf.RecaptchaSiteKey # "") =>
             /\ backend.kind \in {"client_error", "assessment_error"} =>
                  (result.err # "" /\ ~result.isValid)
             /\ backend.kind = "assessment" =>
                  /\ result.err = ""
                  /\ ReturnsTrue(result) = AssessmentAccepts(backend)
                  /\ (backend.TokenProperties = [Valid |-> TRUE]
                      /\ backend.RiskAnalysis = [Score |-> 5]) =>
                       ReturnsTrue(result)
                  /\ (backend.TokenProperties = [Valid |-> TRUE]
                      /\ backend.RiskAnalysis = [Score |-> 3]) =>
                       (~result.isValid /\ ~result.panicked)
                  /\ backend.TokenProperties = [Valid |-> FALSE] =>
                       (~result.isValid /\ ~result.panicked)

C20_Witness ==
  /\ fn = "VerifyToken"
  /\ output.applied
  /\ input.conf.ProjectID # ""
  /\ input.conf.RecaptchaSiteKey # ""
  /\ input.backend.kind = "assessment"
  /\ input.backend.TokenProperties = [Valid |-> TRUE]
  /\ input.backend.RiskAnalysis = [Score |-> 5]
  /\ output.value.isValid

(***************************************************************************)
(* C21: for any ordered candidate list the analysis returns the extracted, *)
(* trimmed content of the lowest-index candidate whose extracted content   *)
(* is non-empty, skipping the earlier ones; it fails with the empty-       *)
(* response error exactly when the list is empty or no candidate yields    *)
(* non-empty extracted content.                                            *)
(***************************************************************************)
\* the positions of the candidates that yield non-empty extracted content
UsableCandidates(candidates) ==
  {i \in 1..Len(candidates) : CandidateText(candidates[i]) # <<>>}

EmptyResponseErrors ==
  {"no response from Gemini", "no valid text response from Gemini"}

C21_LowestUsableCandidate ==
  (fn = "processImageWithGemini" /\ output.applied) =>
    LET candidates == input.Candidates
        usable == UsableCandidates(candidates)
        result == output.value
    IN  /\ (result.err # "") = (candidates = <<>> \/ usable = {})
        /\ result.err # "" =>
             (result.err \in EmptyResponseErrors /\ result.html = <<>>)
        /\ usable # {} =>
             \E i \in usable :
               /\ \A j \in usable : i <= j
               /\ result.html = CandidateText(candidates[i])
               /\ result.html = TrimSpace(result.html)
               /\ result.html # <<>>

C21_Witness ==
  /\ fn = "processImageWithGemini"
  /\ output.applied
  /\ Len(input.Candidates) = 2
  /\ input.Candidates[1] = Candidate(<<Part(<<"<h2>Y</h2>">>)>>)
  /\ UsableCandidates(input.Candidates) = {2}
  /\ output.value.html = <<"<h2>X</h2>">>

(***************************************************************************)
(* C22: body extraction is case-insensitive in the tag name (<BODY> and    *)
(* <Body> are recognized like <body>), tolerates attributes on the opening *)
(* tag and spans multi-line content; the extracted content is the text     *)
(* between the first opening marker and its closing marker.                *)
(***************************************************************************)
OpenBodyAnyCase ==
  {"<body>", "<body class=\"a\">", "<BODY>", "<Body>", "<BODY class=\"a\">"}

CloseBodyAnyCase == {"</body>", "</BODY>", "</Body>"}

\* the text between the first opening marker, in any case, and the first
\* closing marker after it
BodyContentAnyCase(text) ==
  LET opens == {i \in 1..Len(text) :
                  /\ text[i] \in OpenBodyAnyCase
                  /\ \E j \in (i + 1)..Len(text) : text[j] \in CloseBodyAnyCase}
  IN IF opens = {} THEN <<>>
     ELSE LET i == CHOOSE m \in opens : \A n \in opens : m <= n
              closes == {j \in (i + 1)..Len(text) :
                           text[j] \in CloseBodyAnyCase}
              j == CHOOSE m \in closes : \A n \in closes : m <= n
          IN SubSeq(text, i + 1, j - 1)

C22_CaseInsensitiveBody ==
  (/\ fn = "processImageWithGemini"
   /\ output.applied
   /\ Len(input.Candidates) = 1
   /\ input.Candidates[1].Content # Nil) =>
    output.value.html =
      TrimSpace(BodyContentAnyCase(
                  ConcatParts(input.Candidates[1].Content.Parts)))

(***************************************************************************)
(* C23: whenever a request succeeds the returned html is a fragment: it is *)
(* non-empty, has no leading or trailing whitespace and contains no        *)
(* <html>, no opening <body ...> tag and no </body> closing tag.           *)
(***************************************************************************)
DocumentMarkup ==
  {"<html>", "</html>"} \cup OpenBodyTokens \cup CloseBodyTokens

C23_HtmlIsFragment ==
  (pc = "done" /\ resp # NoResponse /\ resp.Success) =>
    /\ resp.HTML # <<>>
    /\ Head(resp.HTML) \notin Whitespace
    /\ resp.HTML[Len(resp.HTML)] \notin Whitespace
    /\ \A i \in 1..Len(resp.HTML) : resp.HTML[i] \notin DocumentMarkup

(***************************************************************************)
(* C24: a candidate whose text holds no <body ...>...</body> pair is       *)
(* skipped even when its text is non-empty markup; if every candidate      *)
(* lacks a body pair the request ends in processing_error and the raw text *)
(* of the candidate is not returned.                                       *)
(***************************************************************************)
\* the candidate's text holds no opening body tag with a closing tag after
HasNoBodyPair(candidate) ==
  \/ candidate.Content = Nil
  \/ LET text == ConcatParts(candidate.Content.Parts)
     IN ~\E i \in 1..Len(text), j \in 1..Len(text) :
           i < j /\ text[i] \in OpenBodyTokens /\ text[j] \in CloseBodyTokens

C24_NoBodyPairIsSkipped ==
  (pc = "done" /\ analysisAns # NoAnswer /\ analysisAns.kind = "response") =>
    LET candidates == analysisAns.Candidates
        withPair == {i \in 1..Len(candidates) :
                       ~HasNoBodyPair(candidates[i])}
    IN /\ withPair = {} =>
            /\ resp = Failure(AnswerLanguage, "processing_error")
            /\ failedStep = "analysis"
            /\ status = 400
       /\ resp.Success =>
            \E i \in withPair :
              resp.HTML = TrimSpace(FindBodySubmatch(
                            ConcatParts(candidates[i].Content.Parts)).group)

C24_Witness ==
  /\ pc = "done"
  /\ analysisAns.kind = "response"
  /\ analysisAns.Candidates = <<Candidate(<<Part(<<"<h2>Y</h2>">>)>>),
                                Candidate(<<Part(<<"<BODY>", "<p>U</p>",
                                                   "</BODY>">>)>>)>>
  /\ failedStep = "analysis"
  /\ ~resp.Success

(***************************************************************************)
(* C25: a non-OPTIONS request whose context is already cancelled on        *)
(* arrival is answered 500 before any dependency is constructed; a context *)
(* cancelled during the verification or the analysis call makes that call  *)
(* fail and the request end in recaptcha_failed or processing_error; a     *)
(* cancelled request never ends in success.                                *)
(***************************************************************************)
C25_CancellationHonoured ==
  /\ (pc \notin {"idle", "arrived"} /\ req.method # "OPTIONS" /\ req.ctxErr) =>
       /\ pc = "done"
       /\ status = 500
       /\ cfg = NoConfig
       /\ containerErr = None
       /\ opened = {}
       /\ calls = <<>>
  /\ (cancelledAt = "verify" /\ pc \notin {"verify"}) =>
       /\ pc = "done"
       /\ failedStep = "verify"
       /\ resp = Failure(AnswerLanguage, "recaptcha_failed")
       /\ ~Contains(calls, "GenerateContent")
  /\ (cancelledAt = "analysis" /\ pc \notin {"analysis"}) =>
       /\ pc = "done"
       /\ failedStep = "analysis"
       /\ resp = Failure(AnswerLanguage, "processing_error")
  /\ (cancelledAt # None /\ resp # NoResponse) => ~resp.Success

\* the verification gateway was called and has returned
VerifyReturned == verifyAns.kind \in {"client_error", "assessment_error",
                                      "assessment"}

\* C25 as amended: a non-OPTIONS request whose context is already cancelled
\* on arrival is answered 500 before any dependency is constructed.  A
\* context cancelled later is the context under which the gateway calls
\* still to return are running; when such a call returns an error the
\* request ends in the failure terminal of that step: recaptcha_failed with
\* no analysis call, or processing_error.
C25_CancellationReachesGateways ==
  /\ (pc \notin {"idle", "arrived"} /\ req.method # "OPTIONS" /\ req.ctxErr) =>
       /\ pc = "done"
       /\ status = 500
       /\ cfg = NoConfig
       /\ containerErr = None
       /\ opened = {}
       /\ calls = <<>>
  /\ (cancelledAt \in {"container", "verify"} /\ VerifyReturned) =>
       "VerifyToken" \in ctxDoneFor
  /\ (cancelledAt # None /\ analysisAns # NoAnswer) =>
       "GenerateContent" \in ctxDoneFor
  /\ (/\ cancelledAt \in {"container", "verify"}
      /\ verifyAns.kind \in {"client_error", "assessment_error"}) =>
       /\ pc = "done"
       /\ failedStep = "verify"
       /\ resp = Failure(AnswerLanguage, "recaptcha_failed")
       /\ status = 400
       /\ ~Contains(calls, "GenerateContent")
       /\ analysisAns = NoAnswer
  /\ (cancelledAt # None /\ analysisAns.kind = "error") =>
       /\ pc = "done"
       /\ failedStep = "analysis"
       /\ resp = Failure(AnswerLanguage, "processing_error")
       /\ status = 400

C25_Witness ==
  /\ pc = "done"
  /\ cancelledAt = "analysis"
  /\ "GenerateContent" \in ctxDoneFor
  /\ analysisAns = [kind |-> "error"]
  /\ verifyAns.kind = "assessment"
  /\ status = 400

\* a request cancelled during the verification call that ends in success
C25_LateCancellation ==
  /\ pc = "done"
  /\ cancelledAt = "verify"
  /\ ctxDoneFor = {"VerifyToken", "GenerateContent"}
  /\ resp # NoResponse
  /\ resp.Success

(***************************************************************************)
(* C26: HandleRequest never returns a non-nil error, so the "Internal      *)
(* server error" branch of Invoke is unreachable and every multipart POST  *)
(* that reaches the handler is answered with a JSON body and status 200 or *)
(* 400.                                                                    *)
(***************************************************************************)
C26_HandlerAnswersJson ==
  (formParsed # None /\ pc \notin {"verify", "analysis"}) =>
    /\ pc = "done"
    /\ resp # NoResponse
    /\ body = <<>>
    /\ "Content-Type" \in DOMAIN headers
    /\ headers["Content-Type"] = "application/json"
    /\ status \in {200, 400}

(***************************************************************************)
(* C27: every request reaches exactly one terminal outcome and Invoke      *)
(* writes exactly one HTTP status for it: no path ends without a status    *)
(* and no path writes a status twice.                                      *)
(***************************************************************************)
C27_ExactlyOneStatus ==
  /\ statusWrites <= 1
  /\ (pc \in {"done", "crashed"}) =>
       /\ pc = "done"
       /\ statusWrites = 1
       /\ status # 0

(***************************************************************************)
(* C28: every resource opened while handling a request is released by the  *)
(* time the request ends, on every path: the verification client, the      *)
(* uploaded file, and every logger and tracer NewContainer created, also   *)
(* when a later construction step of NewContainer fails.                   *)
(***************************************************************************)
C28_AllResourcesReleased ==
  (pc \in {"done", "crashed"}) => resources = {}

(***************************************************************************)
(* C29: with two or more requests in flight, the tracer a request uses     *)
(* comes from the TracerProvider this same request created, and that       *)
(* provider is shut down only by this request's own Close after its span   *)
(* has ended.                                                              *)
(***************************************************************************)
C29_OwnTracerProvider ==
  \A r \in Reqs :
    /\ inv[r].pc \in {"constructed", "handling", "closing"} =>
         /\ inv[r].tr = inv[r].tp
         /\ providers[inv[r].tr] = "running"
    /\ providers[r] = "shutdown" =>
         (inv[r].pc = "done" /\ inv[r].span = "exported")

(***************************************************************************)
(* C30: for every assessment the verification service can return without   *)
(* error, also one without token properties or without risk analysis,      *)
(* VerifyToken returns a decision (false when a section is absent) and the *)
(* request ends in a regular pipeline terminal; no answer makes the        *)
(* request crash without a response.                                       *)
(***************************************************************************)
C30_NoCrashOnAssessment ==
  (verifyAns # NoAnswer /\ verifyAns.kind = "assessment") =>
    /\ pc # "crashed"
    /\ ~VerifyToken(cfg, verifyAns).panicked
    /\ (verifyAns.TokenProperties = Nil \/ verifyAns.RiskAnalysis = Nil) =>
         /\ pc = "done"
         /\ failedStep = "verify"
         /\ resp = Failure(AnswerLanguage, "recaptcha_failed")

====
